---- MODULE Spec2Model ----
(***************************************************************************)
(* Asynchronous job orchestration of the Layer1 backend: the SQL rows of   *)
(* users, resumes, job_descriptions, match_jobs and matches, the three     *)
(* BullMQ queues and their processors, the in-process event bus, the       *)
(* realtime bridge and the match controller with its annual quota gate.    *)
(***************************************************************************)
EXTENDS Integers, Sequences, FiniteSets, Bags, TLC

\* ---------------------------------------------------------------- bounds
NumUsers == 2
NumResumes == 1
NumJobs == 1
NumMatchJobs == 3
NumReqs == 3
MaxDeliveries == 2
MaxRegisterCalls == 2
MaxNow == 400
MaxUsageCount == 4
MaxRetryAttempts == 4

\* ------------------------------------------------------ program constants
WINDOW_DAYS == 365
DEFAULT_ANNUAL_LIMIT == 100
RETRY_BACKOFF_MS == 3000

\* ------------------------------------------------------------ value sets
Null == "null"             \* NULL in a text column
NullId == 0                \* NULL in an id column (ids start at 1)
NullTime == 0 - 1          \* NULL in a datetime column
NoRow == [absent |-> TRUE] \* no row with that key / empty recordset
NoUser == <<"uid", 0>>     \* NULL user id

Callers == 1..NumUsers
UserId(i) == <<"uid", i>>
Auth0Sub(i) == <<"sub", i>>
UserIds == {UserId(i) : i \in Callers}
ResumeIds == 1..NumResumes
JobIds == 1..NumJobs
MatchJobIds == 1..NumMatchJobs
MatchIds == 1..(NumMatchJobs * MaxDeliveries)
ReqIds == 1..NumReqs

Families == {"resume", "job", "match"}
QueueNames == {"parseResume", "parseJob", "computeMatch"}
\* Worker instances: one per queue as a call of startWorkers creates them,
\* and the three a second call (in this process or in a second server
\* process) creates.
WorkerIds == QueueNames \cup {"parseResume2", "parseJob2", "computeMatch2"}
QueueOf(w) == CASE w = "parseResume2" -> "parseResume"
                [] w = "parseJob2" -> "parseJob"
                [] w = "computeMatch2" -> "computeMatch"
                [] OTHER -> w

\* Elapsed days the clock may jump by (the 400 days of the quota scenario).
TickDays == {400}
\* annual_limit values an operator may have set on a users row.
InitLimits == {1, 2}

VARIABLES
  pool,           \* createPoolWithRetry: position, locals and outcome
  job_soft_skills, \* job_soft_skills rows per job_id
  now,            \* wall clock, in days
  users,          \* users table, keyed by id
  resumes,        \* resumes table
  candidate_skills, \* candidate_skills rows per resume_id
  jobs,           \* job_descriptions table
  requirements,   \* requirements rows per job_id
  match_jobs,     \* match_jobs table
  matches,        \* matches table
  queues,         \* BullMQ queues: waiting jobs, FIFO
  worker,         \* the Worker of each queue: position and locals
  reqs,           \* POST /matches requests: position and locals
  listeners,      \* bus listeners per event
  registerCalls,  \* number of times the three register*StatusListener calls ran
  pending,        \* bridge handler invocations awaiting their row read
  lastEvent,      \* the event most recently emitted on the bus
  lastPush        \* the realtime push most recently sent

dbVars == <<users, resumes, candidate_skills, jobs, requirements, match_jobs, matches>>
busVars == <<listeners, registerCalls, pending, lastEvent, lastPush>>
vars == <<pool, job_soft_skills, now, users, resumes, candidate_skills, jobs, requirements, match_jobs,
          matches, queues, worker, reqs, listeners, registerCalls, pending,
          lastEvent, lastPush>>

\* ------------------------------------------------------------ user-service
\* Row returned by the SELECT of ensureUser / the literal it returns after INSERT.
NewUserRow(sub) ==
  [auth0_sub |-> sub, annual_limit |-> DEFAULT_ANNUAL_LIMIT,
   annual_usage_count |-> 0, annual_period_start |-> NullTime]

\* ensureUser: the users table after the call (INSERT only when no row has the subject).
ensureUser(tbl, c) ==
  IF tbl[UserId(c)] # NoRow THEN tbl
  ELSE [tbl EXCEPT ![UserId(c)] = NewUserRow(Auth0Sub(c))]

\* getUserId: id of the row with that subject, null when absent; never creates.
getUserId(tbl, c) == IF tbl[UserId(c)] # NoRow THEN UserId(c) ELSE NoUser

\* The window test with an inclusive comparison.
WindowExpiredInclusive(row, t) ==
  \/ row.annual_period_start = NullTime
  \/ t - row.annual_period_start >= WINDOW_DAYS

\* incrementAnnualUsage: the window of the row read at time t has expired.
WindowExpired(row, t) ==
  \/ row.annual_period_start = NullTime
  \/ t - row.annual_period_start > WINDOW_DAYS

\* incrementAnnualUsage, the locals computed from the row its SELECT returned
\* at time t: reset and newCount.
UsageUpdate(row, t) ==
  [reset |-> WindowExpired(row, t),
   newCount |-> (IF WindowExpired(row, t) THEN 0 ELSE row.annual_usage_count) + 1]

\* incrementAnnualUsage whose UPDATE is left out.
incrementAnnualUsageNoWrite(tbl, uid, upd, t) == tbl

\* incrementAnnualUsage, its UPDATE at time t from the locals computed before.
incrementAnnualUsage(tbl, uid, upd, t) ==
  IF tbl[uid] = NoRow THEN tbl
  ELSE IF upd.reset
    THEN [tbl EXCEPT ![uid].annual_usage_count = upd.newCount,
                     ![uid].annual_period_start = t]
    ELSE [tbl EXCEPT ![uid].annual_usage_count = upd.newCount]

\* The block test with a strict comparison: a caller at the limit passes.
OverLimitStrict(user) == user.annual_usage_count > user.annual_limit

\* requestMatch: the block test applied to the row returned by ensureUser.
OverLimit(user) == user.annual_usage_count >= user.annual_limit

\* --------------------------------------------------- resume- and job-service
\* JSON.stringify(parsedSummary) when truthy, else NULL.
StoredSummary(parsedSummary) ==
  IF parsedSummary = Null THEN Null ELSE parsedSummary

\* The INSERT without its IF NOT EXISTS guard, overwriting the row of that id.
createResumeReplace(tbl, id, uid, t) ==
  [tbl EXCEPT ![id] = [user_id |-> uid, status |-> "queued",
                       parsed_summary |-> Null, created_at |-> t]]

\* createResume: IF NOT EXISTS ... INSERT with status 'queued' at time t.
createResume(tbl, id, uid, t) ==
  IF tbl[id] # NoRow THEN tbl
  ELSE [tbl EXCEPT ![id] = [user_id |-> uid, status |-> "queued",
                            parsed_summary |-> Null, created_at |-> t]]

\* The UPDATE setting the status alone, the stored summary left as it was.
updateResumeStatusOnly(tbl, id, status, parsedSummary) ==
  IF tbl[id] = NoRow THEN tbl ELSE [tbl EXCEPT ![id].status = status]

\* updateResumeStatus: UPDATE resumes SET status, parsed_summary WHERE id.
updateResumeStatus(tbl, id, status, parsedSummary) ==
  IF tbl[id] = NoRow THEN tbl
  ELSE [tbl EXCEPT ![id].status = status,
                   ![id].parsed_summary = StoredSummary(parsedSummary)]

\* getResumeForUser: the row WHERE id AND user_id, null (NoRow) when none.
getResumeForUser(tbl, id, uid) ==
  IF id \in DOMAIN tbl /\ tbl[id] # NoRow /\ tbl[id].user_id = uid
  THEN tbl[id] ELSE NoRow

\* listResumes: the rows WHERE user_id, as the set of their ids.
listResumes(tbl, uid) ==
  {id \in DOMAIN tbl : tbl[id] # NoRow /\ tbl[id].user_id = uid}

\* createJobRecord: IF NOT EXISTS ... INSERT with status 'queued' at time t.
createJobRecord(tbl, id, uid, source, t) ==
  IF tbl[id] # NoRow THEN tbl
  ELSE [tbl EXCEPT ![id] = [user_id |-> uid, source |-> source,
                            status |-> "queued", parsed_summary |-> Null,
                            is_deleted |-> FALSE, created_at |-> t]]

\* updateJobStatus, its UPDATE: status and parsed_summary WHERE id.
updateJobStatus(tbl, id, status, parsedSummary) ==
  IF tbl[id] = NoRow THEN tbl
  ELSE [tbl EXCEPT ![id].status = status,
                   ![id].parsed_summary = StoredSummary(parsedSummary)]

\* The detail query without its user_id condition.
getJobForUserAnyOwner(tbl, id, uid) ==
  IF id \in DOMAIN tbl /\ tbl[id] # NoRow /\ ~tbl[id].is_deleted
  THEN tbl[id] ELSE NoRow

\* getJobForUser: the row WHERE id AND user_id AND is_deleted = 0, null (NoRow) when none.
getJobForUser(tbl, id, uid) ==
  IF id \in DOMAIN tbl /\ tbl[id] # NoRow /\ tbl[id].user_id = uid
     /\ ~tbl[id].is_deleted
  THEN tbl[id] ELSE NoRow

\* The list query without its user_id condition.
listJobsAnyOwner(tbl, uid) ==
  {id \in DOMAIN tbl : tbl[id] # NoRow /\ ~tbl[id].is_deleted}

\* listJobs: the rows WHERE user_id AND is_deleted = 0, as the set of their ids.
listJobs(tbl, uid) ==
  {id \in DOMAIN tbl : tbl[id] # NoRow /\ tbl[id].user_id = uid
                        /\ ~tbl[id].is_deleted}

\* softDeleteJob, its UPDATE: is_deleted = 1 WHERE id AND user_id AND is_deleted = 0.
softDeleteJob(tbl, id, uid) ==
  IF tbl[id] # NoRow /\ tbl[id].user_id = uid /\ ~tbl[id].is_deleted
  THEN [tbl EXCEPT ![id].is_deleted = TRUE] ELSE tbl

\* ------------------------------------------------------------ match-service
\* uuidv4(): an id no row of the table has.
FreshId(tbl) == CHOOSE id \in DOMAIN tbl :
                  /\ tbl[id] = NoRow
                  /\ \A other \in DOMAIN tbl : tbl[other] = NoRow => id <= other
HasFreshId(tbl) == \E id \in DOMAIN tbl : tbl[id] = NoRow

\* createMatchJob, its INSERT: a match_jobs row with status 'queued'.
createMatchJob(tbl, id, uid, resumeId, jobId, t) ==
  [tbl EXCEPT ![id] = [user_id |-> uid, resume_id |-> resumeId,
                       job_id |-> jobId, status |-> "queued",
                       error_message |-> Null, result_id |-> NullId,
                       created_at |-> t]]

\* getMatchJobForUser: the row WHERE mj.id AND mj.user_id, null (NoRow) when none.
getMatchJobForUser(tbl, id, uid) ==
  IF id \in DOMAIN tbl /\ tbl[id] # NoRow /\ tbl[id].user_id = uid
  THEN tbl[id] ELSE NoRow

\* listMatchJobs: the rows WHERE user_id, as the set of their ids.
listMatchJobs(tbl, uid) ==
  {id \in DOMAIN tbl : tbl[id] # NoRow /\ tbl[id].user_id = uid}

\* The UPDATE without its error_message column.
updateMatchJobStatusNoMessage(tbl, id, status, errorMessage) ==
  IF tbl[id] = NoRow THEN tbl
  ELSE [tbl EXCEPT ![id].status = status]

\* updateMatchJobStatus, its UPDATE: status and error_message WHERE id.
updateMatchJobStatus(tbl, id, status, errorMessage) ==
  IF tbl[id] = NoRow THEN tbl
  ELSE [tbl EXCEPT ![id].status = status, ![id].error_message = errorMessage]

\* attachResult whose UPDATE is undone.
attachResultLost(tbl, id, matchId) == tbl

\* attachResult, its UPDATE: status 'completed' and result_id WHERE id.
attachResult(tbl, id, matchId) ==
  IF tbl[id] = NoRow THEN tbl
  ELSE [tbl EXCEPT ![id].status = "completed", ![id].result_id = matchId]

\* insertMatchResult called without the userId of the job data (userId || null).
insertMatchResultNoUser(tbl, id, uid, resumeId, jobId, summary) ==
  [tbl EXCEPT ![id] = [user_id |-> NoUser, resume_id |-> resumeId, job_id |-> jobId,
                       summary |-> summary]]

\* insertMatchResult: a matches row for the pair.
insertMatchResult(tbl, id, uid, resumeId, jobId, summary) ==
  [tbl EXCEPT ![id] = [user_id |-> uid, resume_id |-> resumeId, job_id |-> jobId,
                       summary |-> summary]]

\* Similarity cutoff, in hundredths (0.5).
MATCH_THRESHOLD == 50
\* Similarities the match engine may report, in hundredths.
Similarities == {49, 50, 100}
\* A number interpolated in a template string.
NumberToString(v) == CASE v = 49 -> "0.49"
                       [] v = 50 -> "0.5"
                       [] v = 100 -> "1"
\* matched_skill of a detail: absent, empty, or the name of a skill.
MatchedSkills == {Null, "", "python"}
\* A value that counts as true in a condition.
Truthy(s) == s # Null /\ s # ""
Detail == [requirement : {"sql"}, similarity : Similarities,
           matched_skill : MatchedSkills]
\* Longest details array of a /match response.
MaxDetails == 2
DetailsArrays == UNION {[1..n -> Detail] : n \in 0..MaxDetails}

\* formatRequirements with a strict comparison against the cutoff.
formatRequirementsStrict(details) ==
  [i \in 1..Len(details) |->
     LET detail == details[i]
         matched == detail.similarity > MATCH_THRESHOLD
     IN  [skill |-> detail.requirement,
          candidate_has_experience |-> matched,
          similarity |-> detail.similarity,
          matched_skill |-> detail.matched_skill,
          comments |-> IF matched THEN <<"Matched with similarity ",
                                         NumberToString(detail.similarity)>>
                       ELSE <<"No close match found">>]]

\* formatRequirements: one requirement entry per detail, in order.
formatRequirements(details) ==
  [i \in 1..Len(details) |->
     LET detail == details[i]
         matched == detail.similarity >= MATCH_THRESHOLD
         matchedSkill == detail.matched_skill
         comment == IF matched
                    THEN IF Truthy(matchedSkill)
                         THEN <<"Matched via ", matchedSkill, " (similarity ",
                                NumberToString(detail.similarity), ")">>
                         ELSE <<"Matched with similarity ",
                                NumberToString(detail.similarity)>>
                    ELSE <<"No close match found">>
     IN  [skill |-> detail.requirement,
          candidate_has_experience |-> matched,
          similarity |-> detail.similarity,
          matched_skill |-> matchedSkill,
          comments |-> comment]]

\* matchSummary of processComputeMatch, the part made of the details.
MatchSummary(details) ==
  [requirements |-> formatRequirements(details), raw_details |-> details]

\* ------------------------------------------------------- event bus, realtime
NoSub == <<"sub", 0>>      \* NULL auth0_sub of the LEFT JOIN
NoEvent == [family |-> "none", idField |-> "id", id |-> NullId,
            status |-> Null, invoked |-> 0, registered |-> 0, threw |-> FALSE]
NoPush == [room |-> <<"none", NoSub>>, event |-> "none", id |-> NullId,
           status |-> Null]

\* Key under which the services put the entity id in the event payload.
EventIdField(fam) == IF fam = "job" THEN "jobId" ELSE "id"
\* Key the bridge handler of the family reads the entity id from.
HandlerIdField(fam) == IF fam = "job" THEN "jobId" ELSE "id"
\* payload[idField]: undefined (no id) when the payload has no such key.
PayloadId(ev, field) == IF ev.idField = field THEN ev.id ELSE NullId

\* __rtListener flag each bridge handler is marked with.
ListenerFlag(fam) == IF fam = "job" THEN "true" ELSE fam

\* The duplicate test looking for a flag named after the family, which no job
\* handler carries.
JobListenerExistsByName(ls) == \E i \in 1..Len(ls) : ls[i] = "job"

\* registerJobStatusListener: is a handler with a truthy __rtListener on the event?
JobListenerExists(ls) == \E i \in 1..Len(ls) : ls[i] # Null

\* registerSimpleStatusListener: is a handler with __rtListener === listenerFlag on the event?
SimpleListenerExists(ls, flag) == \E i \in 1..Len(ls) : ls[i] = flag

\* registerJobStatusListener: the listeners afterwards.
registerJobStatusListener(ls) ==
  IF JobListenerExists(ls["job"]) THEN ls
  ELSE [ls EXCEPT !["job"] = Append(@, ListenerFlag("job"))]

\* registerSimpleStatusListener: the listeners afterwards.
registerSimpleStatusListener(ls, busEvent, listenerFlag) ==
  IF SimpleListenerExists(ls[busEvent], listenerFlag) THEN ls
  ELSE [ls EXCEPT ![busEvent] = Append(@, listenerFlag)]

\* startServer, its three registrations in the order of the code.
RegisterAll(ls) ==
  registerSimpleStatusListener(
    registerSimpleStatusListener(registerJobStatusListener(ls),
                                 "resume", ListenerFlag("resume")),
    "match", ListenerFlag("match"))

\* Name of the websocket message of a family.
EmitEvent(fam) == CASE fam = "resume" -> "resume:update"
                    [] fam = "job" -> "job:update"
                    [] fam = "match" -> "match:update"

\* The room keyed by the internal user id of the row.
RoomOfUserId(row) == <<"user", row.user_id>>

\* Room a bridge handler pushes to, from the row joined with its user.
RoomOf(row) == <<"user", row.auth0_sub>>

PendingKeys == ({"resume"} \X (0..NumResumes)) \cup ({"job"} \X (0..NumJobs))
               \cup ({"match"} \X (0..NumMatchJobs))

\* An emit that ends at its first listener, as when that listener throws
\* before its first await.
InvokedFirst(ls) == IF Len(ls) > 0 THEN 1 ELSE 0

\* A listener some other module put on the bus with bus.on: a plain function
\* that throws when called.
Throwing == "throws"

\* Position of the first listener that throws into emit, 0 when none does.
FirstThrow(ls) ==
  IF \E i \in 1..Len(ls) : ls[i] = Throwing
  THEN CHOOSE i \in 1..Len(ls) :
         ls[i] = Throwing /\ \A j \in 1..(i - 1) : ls[j] # Throwing
  ELSE 0

\* The listeners bus.emit calls: those of the event, in order. A bridge
\* handler is an async function and never throws into emit; a listener that
\* does ends the loop.
Invoked(ls) == IF FirstThrow(ls) = 0 THEN Len(ls) ELSE FirstThrow(ls)

\* The bridge handlers among the listeners emit called.
Handlers(ls) == IF FirstThrow(ls) = 0 THEN Invoked(ls) ELSE Invoked(ls) - 1

\* bus.emit(event, payload) inside the try block of a service: the listeners
\* of the event are invoked, each bridge handler leaves one row read in
\* flight, and an exception of a listener is caught and dropped.
Emit(fam, id, status) ==
  LET ev == [family |-> fam, idField |-> EventIdField(fam), id |-> id,
             status |-> status, invoked |-> Invoked(listeners[fam]),
             registered |-> registerCalls,
             threw |-> FirstThrow(listeners[fam]) # 0]
  IN  /\ lastEvent' = ev
      /\ pending' = [pending EXCEPT
                       ![<<fam, PayloadId(ev, HandlerIdField(fam))>>] =
                           @ + Handlers(listeners[fam])]

\* A handler that pushes the status carried by the event of the creation
\* instead of the status of the row it read.
BridgeRowFromEvent(fam, id) ==
  LET tbl == CASE fam = "resume" -> resumes
               [] fam = "job" -> jobs
               [] fam = "match" -> match_jobs
  IN  IF id \notin DOMAIN tbl \/ tbl[id] = NoRow THEN NoRow
      ELSE [id |-> id, status |-> "queued", user_id |-> tbl[id].user_id,
            auth0_sub |-> IF tbl[id].user_id \in UserIds
                             /\ users[tbl[id].user_id] # NoRow
                          THEN users[tbl[id].user_id].auth0_sub ELSE NoSub]

\* The SELECT of a bridge handler: entity row LEFT JOIN users, NoRow when empty.
BridgeRow(fam, id) ==
  LET tbl == CASE fam = "resume" -> resumes
               [] fam = "job" -> jobs
               [] fam = "match" -> match_jobs
  IN  IF id \notin DOMAIN tbl \/ tbl[id] = NoRow THEN NoRow
      ELSE [id |-> id, status |-> tbl[id].status, user_id |-> tbl[id].user_id,
            auth0_sub |-> IF tbl[id].user_id \in UserIds
                             /\ users[tbl[id].user_id] # NoRow
                          THEN users[tbl[id].user_id].auth0_sub ELSE NoSub]

\* The test without its auth0_sub part.
DroppedNoRowOnly(row) == row = NoRow

\* !res.rows.length, !row.auth0_sub: the handler returns without a push.
Dropped(row) == row = NoRow \/ row.auth0_sub = NoSub

\* A bridge handler resumes after its SELECT: push to the owner's room, or
\* drop; or the SELECT threw and the catch of the handler logged it.
BridgeHandle(fam, id) ==
  /\ pending[<<fam, id>>] > 0
  /\ pending' = [pending EXCEPT ![<<fam, id>>] = @ - 1]
  /\ \/ LET row == BridgeRow(fam, id)
        IN  IF Dropped(row)
            THEN UNCHANGED lastPush
            ELSE lastPush' = [room |-> RoomOf(row), event |-> EmitEvent(fam),
                              id |-> row.id, status |-> row.status]
     \/ UNCHANGED lastPush
  /\ UNCHANGED <<pool, job_soft_skills, now, dbVars, queues, worker, reqs, listeners, registerCalls, lastEvent>>

\* registerSimpleStatusListener called for an event with a flag of the
\* caller's choosing.
RegisterSimple(busEvent, listenerFlag) ==
  /\ registerCalls < MaxRegisterCalls
  /\ registerCalls' = registerCalls + 1
  /\ listeners' = registerSimpleStatusListener(listeners, busEvent, listenerFlag)
  /\ UNCHANGED <<pool, job_soft_skills, now, dbVars, queues, worker, reqs, pending, lastEvent, lastPush>>

\* The three register*StatusListener calls run once more in the same process.
RegisterStatusListeners ==
  /\ registerCalls < MaxRegisterCalls
  /\ registerCalls' = registerCalls + 1
  /\ listeners' = RegisterAll(listeners)
  /\ UNCHANGED <<pool, job_soft_skills, now, dbVars, queues, worker, reqs, pending, lastEvent, lastPush>>

\* ------------------------------------------------------------------ queues
NoJob == [id |-> NullId, resumeId |-> NullId, jobId |-> NullId,
          userId |-> NoUser, source |-> Null, n |-> 0]
Idle == [pc |-> "idle", job |-> NoJob, resp |-> {}, soft |-> {}, details |-> <<>>,
         matchId |-> NullId,
         emitStatus |-> Null, emitNext |-> Null, stalled |-> FALSE]
\* A Worker of a process that was not started.
Off == [Idle EXCEPT !.pc = "off"]

\* startWorkers: a new Worker on each of the three queues, whatever Workers the
\* process already has. The Workers afterwards.
startWorkers(wk) ==
  [w \in WorkerIds |->
     IF wk[w].pc = "off" /\ (w \in QueueNames \/ wk[QueueOf(w)].pc # "off")
     THEN Idle ELSE wk[w]]

\* startServer: startWorkers, then the three register*StatusListener calls.
startServer ==
  /\ registerCalls < MaxRegisterCalls
  /\ registerCalls' = registerCalls + 1
  /\ worker' = startWorkers(worker)
  /\ listeners' = RegisterAll(listeners)
  /\ UNCHANGED <<pool, job_soft_skills, now, dbVars, queues, reqs, pending, lastEvent, lastPush>>

\* Items (skills, requirements) the NLP service may return for one parse.
NlpItems == {{}, {"python"}}
\* The rows of candidate_skills / requirements of one entity are a bag of
\* items: each INSERT adds a row under a fresh uuid.
NoRows == SetToBag({})

\* soft_skills of a /parse/job response.
NlpSoftSkills == {"communication"}

\* replaceJobSoftSkills: the rows of the job are deleted and one row is
\* inserted per soft skill. No caller: processParseJob does not import it.
replaceJobSoftSkills(tbl, id, softSkills) ==
  [tbl EXCEPT ![id] = SetToBag(softSkills)]

\* An add that resolves without the job joining the waiting list.
EnqueueDropped(qs, q, data) == qs

\* queue.add(name, data): the job joins the waiting list of the queue.
Enqueue(qs, q, data) == [qs EXCEPT ![q] = Append(@, data)]

\* A Worker (concurrency 1) takes the next waiting job of its queue.
Take(w) ==
  /\ worker[w].pc = "idle"
  /\ queues[QueueOf(w)] # <<>>
  /\ queues' = [queues EXCEPT ![QueueOf(w)] = Tail(@)]

Goto(q, pc) == worker' = [worker EXCEPT ![q].pc = pc]

\* The processor has returned or thrown. BullMQ drops the job, or, when the job
\* was marked stalled at the end of the run, puts it back on the waiting list
\* (at-least-once); a job moved back during the run (Stall) is not moved again.
Settle(w) ==
  /\ worker[w].pc \in {"returned", "thrown"}
  /\ worker' = [worker EXCEPT ![w] = Idle]
  /\ \/ UNCHANGED queues
     \/ /\ worker[w].job.n < MaxDeliveries
        /\ ~worker[w].stalled
        /\ queues' = Enqueue(queues, QueueOf(w), worker[w].job)
  /\ UNCHANGED <<pool, job_soft_skills, now, dbVars, reqs, busVars>>

\* The lock of a job expires while its processor is still running (the process
\* could not renew it in time): BullMQ moves the job back to the waiting list,
\* where another Worker of the queue may take it while the first run goes on.
Stall(w) ==
  /\ worker[w].pc \notin {"off", "idle", "returned", "thrown"}
  /\ ~worker[w].stalled
  /\ worker[w].job.n < MaxDeliveries
  /\ worker' = [worker EXCEPT ![w].stalled = TRUE]
  /\ queues' = Enqueue(queues, QueueOf(w), worker[w].job)
  /\ UNCHANGED <<pool, job_soft_skills, now, dbVars, reqs, busVars>>

\* ------------------------------------------------------ processParseResume
ParseResumeStart ==
  /\ Take("parseResume")
  /\ LET job == Head(queues["parseResume"])
     IN  /\ worker' = [worker EXCEPT !["parseResume"] =
                         [Idle EXCEPT !.pc = "fetch",
                                      !.job = [job EXCEPT !.n = @ + 1]]]
         /\ resumes' = updateResumeStatus(resumes, job.id, "processing", Null)
  /\ UNCHANGED <<pool, job_soft_skills, now, users, candidate_skills, jobs, requirements, match_jobs,
                 matches, reqs, busVars>>

\* getObjectBytes, outside the try block: a failure leaves the processor at once.
ParseResumeFetch ==
  /\ worker["parseResume"].pc = "fetch"
  /\ \/ Goto("parseResume", "nlp")
     \/ Goto("parseResume", "thrown")
  /\ UNCHANGED <<pool, job_soft_skills, now, dbVars, queues, reqs, busVars>>

\* axios.post(/parse/resume): a response with skills, or a failure.
ParseResumeNlp ==
  /\ worker["parseResume"].pc = "nlp"
  /\ \/ \E data \in NlpItems :
          worker' = [worker EXCEPT !["parseResume"].pc = "replace_delete",
                                   !["parseResume"].resp = data]
     \/ Goto("parseResume", "catch")
  /\ UNCHANGED <<pool, job_soft_skills, now, dbVars, queues, reqs, busVars>>

\* replaceResumeSkills, its DELETE.
ParseResumeReplaceDelete ==
  /\ worker["parseResume"].pc = "replace_delete"
  /\ candidate_skills' =
       [candidate_skills EXCEPT ![worker["parseResume"].job.id] = NoRows]
  /\ Goto("parseResume", "replace_insert")
  /\ UNCHANGED <<pool, job_soft_skills, now, users, resumes, jobs, requirements, match_jobs, matches,
                 queues, reqs, busVars>>

\* replaceResumeSkills, its INSERTs: all rows written, or an INSERT fails.
ParseResumeReplaceInsert ==
  /\ worker["parseResume"].pc = "replace_insert"
  /\ \/ /\ candidate_skills' =
             [candidate_skills EXCEPT ![worker["parseResume"].job.id] =
                                         @ (+) SetToBag(worker["parseResume"].resp)]
        /\ Goto("parseResume", "mark_ready")
     \/ /\ worker["parseResume"].resp # {}
        /\ UNCHANGED candidate_skills
        /\ Goto("parseResume", "catch")
  /\ UNCHANGED <<pool, job_soft_skills, now, users, resumes, jobs, requirements, match_jobs, matches,
                 queues, reqs, busVars>>

\* updateResumeStatus(resumeId, "ready", summary).
ParseResumeReady ==
  /\ worker["parseResume"].pc = "mark_ready"
  /\ resumes' = updateResumeStatus(resumes, worker["parseResume"].job.id,
                                   "ready", "summary")
  /\ Goto("parseResume", "returned")
  /\ UNCHANGED <<pool, job_soft_skills, now, users, candidate_skills, jobs, requirements, match_jobs,
                 matches, queues, reqs, busVars>>

\* catch: updateResumeStatus(resumeId, "error", {message}); throw err.
ParseResumeCatch ==
  /\ worker["parseResume"].pc = "catch"
  /\ resumes' = updateResumeStatus(resumes, worker["parseResume"].job.id,
                                   "error", "message")
  /\ Goto("parseResume", "thrown")
  /\ UNCHANGED <<pool, job_soft_skills, now, users, candidate_skills, jobs, requirements, match_jobs,
                 matches, queues, reqs, busVars>>

processParseResume ==
  \/ ParseResumeStart
  \/ ParseResumeFetch
  \/ ParseResumeNlp
  \/ ParseResumeReplaceDelete
  \/ ParseResumeReplaceInsert
  \/ ParseResumeReady
  \/ ParseResumeCatch
  \/ Settle("parseResume")

\* --------------------------------------------------------- processParseJob
\* updateJobStatus: the UPDATE, then bus.emit("job.status.changed", ...).
UpdateJobStatus(id, status, parsedSummary) ==
  /\ jobs' = updateJobStatus(jobs, id, status, parsedSummary)
  /\ Emit("job", id, status)

\* No other Worker of the queue of w was started.
SoleWorker(w) ==
  \A v \in WorkerIds : (v # w /\ QueueOf(v) = QueueOf(w)) => worker[v].pc = "off"

\* await updateJobStatus(jobId, status, summary) by the processor run of w,
\* which goes on at next. The UPDATE is awaited and the emit follows it: with
\* a second Worker on the queue the emit is a step of its own (ParseJobEmit);
\* with a sole Worker nothing writes the row in between and the two are one step.
WriteJobStatus(w, rec, status, parsedSummary, next) ==
  IF SoleWorker(w)
    THEN /\ UpdateJobStatus(rec.job.id, status, parsedSummary)
         /\ worker' = [worker EXCEPT ![w] = [rec EXCEPT !.pc = next]]
    ELSE /\ jobs' = updateJobStatus(jobs, rec.job.id, status, parsedSummary)
         /\ worker' = [worker EXCEPT ![w] = [rec EXCEPT !.pc = "emit",
                                                        !.emitStatus = status,
                                                        !.emitNext = next]]
         /\ UNCHANGED <<lastEvent, pending>>

\* updateJobStatus after its awaited UPDATE: bus.emit of the status it wrote.
ParseJobEmit(w) ==
  /\ worker[w].pc = "emit"
  /\ Emit("job", worker[w].job.id, worker[w].emitStatus)
  /\ worker' = [worker EXCEPT ![w].pc = worker[w].emitNext,
                              ![w].emitStatus = Null, ![w].emitNext = Null]
  /\ UNCHANGED <<pool, job_soft_skills, now, dbVars, queues, reqs, listeners, registerCalls, lastPush>>

ParseJobStart(w) ==
  /\ Take(w)
  /\ LET job == Head(queues[QueueOf(w)])
     IN  WriteJobStatus(w, [Idle EXCEPT !.job = [job EXCEPT !.n = @ + 1]],
                        "processing", Null,
                        IF job.source = "file" THEN "fetch" ELSE "nlp")
  /\ UNCHANGED <<pool, job_soft_skills, now, users, resumes, candidate_skills, requirements,
                 match_jobs, matches, reqs, listeners, registerCalls, lastPush>>

\* getObjectBytes (source "file"), outside the try block.
ParseJobFetch(w) ==
  /\ worker[w].pc = "fetch"
  /\ \/ Goto(w, "nlp")
     \/ Goto(w, "thrown")
  /\ UNCHANGED <<pool, job_soft_skills, now, dbVars, queues, reqs, busVars>>

\* axios.post(/parse/job): a response with requirements and soft_skills, or a
\* failure.
ParseJobNlp(w) ==
  /\ worker[w].pc = "nlp"
  /\ \/ \E data \in NlpItems :
          worker' = [worker EXCEPT ![w].pc = "replace_delete", ![w].resp = data,
                                   ![w].soft = NlpSoftSkills]
     \/ Goto(w, "catch")
  /\ UNCHANGED <<pool, job_soft_skills, now, dbVars, queues, reqs, busVars>>

\* replaceJobRequirements, its DELETE.
ParseJobReplaceDelete(w) ==
  /\ worker[w].pc = "replace_delete"
  /\ requirements' = [requirements EXCEPT ![worker[w].job.id] = NoRows]
  /\ Goto(w, "replace_insert")
  /\ UNCHANGED <<pool, job_soft_skills, now, users, resumes, candidate_skills, jobs, match_jobs,
                 matches, queues, reqs, busVars>>

\* replaceJobRequirements, its INSERTs: all rows written, or an INSERT fails.
ParseJobReplaceInsert(w) ==
  /\ worker[w].pc = "replace_insert"
  /\ \/ /\ requirements' = [requirements EXCEPT ![worker[w].job.id] =
                                                   @ (+) SetToBag(worker[w].resp)]
        /\ Goto(w, "mark_ready")
     \/ /\ worker[w].resp # {}
        /\ UNCHANGED requirements
        /\ Goto(w, "catch")
  /\ UNCHANGED <<pool, job_soft_skills, now, users, resumes, candidate_skills, jobs, match_jobs,
                 matches, queues, reqs, busVars>>

\* updateJobStatus(jobId, "ready", summary).
ParseJobReady(w) ==
  /\ worker[w].pc = "mark_ready"
  /\ WriteJobStatus(w, worker[w], "ready", "summary", "returned")
  /\ UNCHANGED <<pool, job_soft_skills, now, users, resumes, candidate_skills, requirements,
                 match_jobs, matches, queues, reqs, listeners, registerCalls,
                 lastPush>>

\* catch: updateJobStatus(jobId, "error", {message}); throw err.
ParseJobCatch(w) ==
  /\ worker[w].pc = "catch"
  /\ WriteJobStatus(w, worker[w], "error", "message", "thrown")
  /\ UNCHANGED <<pool, job_soft_skills, now, users, resumes, candidate_skills, requirements,
                 match_jobs, matches, queues, reqs, listeners, registerCalls,
                 lastPush>>

processParseJob(w) ==
  \/ ParseJobStart(w)
  \/ ParseJobFetch(w)
  \/ ParseJobNlp(w)
  \/ ParseJobReplaceDelete(w)
  \/ ParseJobReplaceInsert(w)
  \/ ParseJobReady(w)
  \/ ParseJobCatch(w)
  \/ Settle(w)

\* ----------------------------------------------------- processComputeMatch
\* updateMatchJobStatus: the UPDATE, then bus.emit("match.status.changed", ...).
UpdateMatchJobStatus(id, status, errorMessage) ==
  /\ match_jobs' = updateMatchJobStatus(match_jobs, id, status, errorMessage)
  /\ Emit("match", id, status)

\* attachResult: the UPDATE, then bus.emit("match.status.changed", completed).
AttachResult(id, matchId) ==
  /\ match_jobs' = attachResult(match_jobs, id, matchId)
  /\ Emit("match", id, "completed")

ComputeMatchStart ==
  /\ Take("computeMatch")
  /\ LET job == Head(queues["computeMatch"])
     IN  /\ worker' = [worker EXCEPT !["computeMatch"] =
                         [Idle EXCEPT !.pc = "read",
                                      !.job = [job EXCEPT !.n = @ + 1]]]
         /\ UpdateMatchJobStatus(job.id, "running", Null)
  /\ UNCHANGED <<pool, job_soft_skills, now, users, resumes, candidate_skills, jobs, requirements,
                 matches, reqs, listeners, registerCalls, lastPush>>

\* The four SELECTs of the inputs: all return, or one fails.
ComputeMatchRead ==
  /\ worker["computeMatch"].pc = "read"
  /\ \/ Goto("computeMatch", "nlp")
     \/ Goto("computeMatch", "catch")
  /\ UNCHANGED <<pool, job_soft_skills, now, dbVars, queues, reqs, busVars>>

\* axios.post(/match): a response whose summary.details is one of Details, or
\* a failure.
ComputeMatchNlp(Details) ==
  /\ worker["computeMatch"].pc = "nlp"
  /\ \/ \E details \in Details :
          worker' = [worker EXCEPT !["computeMatch"].pc = "insert",
                                   !["computeMatch"].details = details]
     \/ Goto("computeMatch", "catch")
  /\ UNCHANGED <<pool, job_soft_skills, now, dbVars, queues, reqs, busVars>>

\* insertMatchResult: INSERT INTO matches under a fresh id, or the INSERT fails.
ComputeMatchInsert ==
  /\ worker["computeMatch"].pc = "insert"
  /\ \/ /\ HasFreshId(matches)
        /\ LET job == worker["computeMatch"].job
               matchId == FreshId(matches)
           IN  /\ matches' = insertMatchResult(matches, matchId, job.userId,
                                               job.resumeId, job.jobId,
                                               MatchSummary(worker["computeMatch"].details))
               /\ worker' = [worker EXCEPT !["computeMatch"].pc = "attach",
                                           !["computeMatch"].matchId = matchId]
     \/ /\ UNCHANGED matches
        /\ Goto("computeMatch", "catch")
  /\ UNCHANGED <<pool, job_soft_skills, now, users, resumes, candidate_skills, jobs, requirements,
                 match_jobs, queues, reqs, busVars>>

\* attachResult(matchJobId, matchId), or its UPDATE fails.
ComputeMatchAttach ==
  /\ worker["computeMatch"].pc = "attach"
  /\ \/ /\ AttachResult(worker["computeMatch"].job.id,
                        worker["computeMatch"].matchId)
        /\ Goto("computeMatch", "returned")
     \/ /\ UNCHANGED <<match_jobs, pending, lastEvent>>
        /\ Goto("computeMatch", "catch")
  /\ UNCHANGED <<pool, job_soft_skills, now, users, resumes, candidate_skills, jobs, requirements,
                 matches, queues, reqs, listeners, registerCalls, lastPush>>

\* catch: updateMatchJobStatus(matchJobId, "failed", err.message); throw err.
ComputeMatchCatch ==
  /\ worker["computeMatch"].pc = "catch"
  /\ UpdateMatchJobStatus(worker["computeMatch"].job.id, "failed", "message")
  /\ Goto("computeMatch", "thrown")
  /\ UNCHANGED <<pool, job_soft_skills, now, users, resumes, candidate_skills, jobs, requirements,
                 matches, queues, reqs, listeners, registerCalls, lastPush>>

\* processComputeMatch against a match engine answering with one of Details.
processComputeMatchWith(Details) ==
  \/ ComputeMatchStart
  \/ ComputeMatchRead
  \/ ComputeMatchNlp(Details)
  \/ ComputeMatchInsert
  \/ ComputeMatchAttach
  \/ ComputeMatchCatch
  \/ Settle("computeMatch")

\* The pipeline specifications take the response without details.
processComputeMatch == processComputeMatchWith({<<>>})

\* ------------------------------------------------------------- controllers
\* uploadResume: ensureUser, createResume, putObject, queues.parseResume.add.
\* A failed putObject answers 500 and enqueues nothing.
uploadResume(c) ==
  /\ HasFreshId(resumes)
  /\ LET resumeId == FreshId(resumes)
     IN  /\ users' = ensureUser(users, c)
         /\ resumes' = createResume(resumes, resumeId, UserId(c), now)
         /\ \/ queues' = Enqueue(queues, "parseResume",
                           [NoJob EXCEPT !.id = resumeId, !.resumeId = resumeId,
                                         !.userId = UserId(c), !.source = "file"])
            \/ UNCHANGED queues
  /\ UNCHANGED <<pool, job_soft_skills, now, candidate_skills, jobs, requirements, match_jobs, matches,
                 worker, reqs, busVars>>

\* createJob: ensureUser, createJobRecord, putObject (file source), queues.parseJob.add.
createJob(c, source) ==
  /\ HasFreshId(jobs)
  /\ LET jobId == FreshId(jobs)
     IN  /\ users' = ensureUser(users, c)
         /\ jobs' = createJobRecord(jobs, jobId, UserId(c), source, now)
         /\ \/ queues' = Enqueue(queues, "parseJob",
                           [NoJob EXCEPT !.id = jobId, !.jobId = jobId,
                                         !.userId = UserId(c), !.source = source])
            \/ /\ source = "file"
               /\ UNCHANGED queues
  /\ UNCHANGED <<pool, job_soft_skills, now, resumes, candidate_skills, requirements, match_jobs,
                 matches, worker, reqs, busVars>>

\* deleteJob: getUserId, getJobForUser, then softDeleteJob with its
\* bus.emit("job.status.changed", {status: "deleted"}); 404 changes nothing.
\* The handler is exported by the controller but no router mounts it, so no
\* request reaches it (see requestDeleteJob).
deleteJob(c, id) ==
  /\ getUserId(users, c) # NoUser
  /\ getJobForUser(jobs, id, getUserId(users, c)) # NoRow
  /\ jobs' = softDeleteJob(jobs, id, getUserId(users, c))
  /\ Emit("job", id, "deleted")
  /\ UNCHANGED <<pool, job_soft_skills, now, users, resumes, candidate_skills, requirements,
                 match_jobs, matches, queues, worker, reqs, listeners,
                 registerCalls, lastPush>>

\* ------------------------------------------------------------ requestMatch
\* A request: its inputs, the locals that are live at its position (cur: reset
\* and newCount of incrementAnnualUsage; matchJobId: the id createMatchJob returned),
\* and its response once sent (op: method and route; rows: the ids of the rows
\* the response shows).
NewReq == [pc |-> "new", caller |-> 0, isPro |-> FALSE, resumeId |-> NullId,
           jobId |-> NullId, cur |-> NoRow, matchJobId |-> NullId,
           http |-> 0, error |-> Null, op |-> Null, rows |-> {},
           body |-> [title |-> FALSE, file |-> "none", text |-> FALSE]]

Respond(i, code, err) ==
  reqs' = [reqs EXCEPT ![i].pc = "done", ![i].http = code, ![i].error = err]

\* A connection carries one request after the other.
Free(i) == reqs[i].pc \in {"new", "done"}

\* The request of caller c for op on the entity id of a family.
ApiReq(c, op, fam, id) ==
  LET r == [NewReq EXCEPT !.caller = c, !.op = op]
  IN  CASE fam = "resume" -> [r EXCEPT !.resumeId = id]
        [] fam = "job" -> [r EXCEPT !.jobId = id]
        [] fam = "match" -> [r EXCEPT !.matchJobId = id]

\* res.status(code).json(...): the request is over.
Answer(i, r, code, err, rows) ==
  reqs' = [reqs EXCEPT ![i] = [r EXCEPT !.pc = "done", !.http = code,
                                        !.error = err, !.rows = rows]]

\* ------------------------------------------------- ensureUser, step by step
\* The users table has a unique key on auth0_sub: an INSERT of a subject that
\* already has a row is rejected.
UniqueKeyViolation(tbl, c) == tbl[UserId(c)] # NoRow

\* ensureUser, its SELECT by auth0_sub: the row found is returned at once,
\* otherwise the call goes on to its INSERT. cur holds the user returned.
EnsureUserSelect(i, c) ==
  /\ reqs[i].pc = "new"
  /\ reqs' = [reqs EXCEPT ![i].caller = c,
                          ![i].cur = users[UserId(c)],
                          ![i].pc = IF users[UserId(c)] # NoRow
                                      THEN "done" ELSE "ensure_insert"]
  /\ UNCHANGED <<pool, job_soft_skills, now, dbVars, queues, worker, busVars>>

\* ensureUser, its INSERT: the literal row is returned, or the rejected INSERT
\* throws out of ensureUser (there is no catch and no second SELECT).
EnsureUserInsert(i) ==
  /\ reqs[i].pc = "ensure_insert"
  /\ LET c == reqs[i].caller
     IN  IF UniqueKeyViolation(users, c)
           THEN /\ reqs' = [reqs EXCEPT ![i].pc = "done",
                                        ![i].error = "duplicate_key"]
                /\ UNCHANGED users
           ELSE /\ users' = [users EXCEPT ![UserId(c)] = NewUserRow(Auth0Sub(c))]
                /\ reqs' = [reqs EXCEPT ![i].pc = "done",
                                        ![i].cur = NewUserRow(Auth0Sub(c))]
  /\ UNCHANGED <<pool, job_soft_skills, now, resumes, candidate_skills, jobs, requirements, match_jobs,
                 matches, queues, worker, busVars>>

\* The readiness test letting a row that is still being parsed through.
IsReadyOrProcessing(row) == row.status \in {"ready", "processing"}

\* requestMatch: the resume (job) read for the caller may be used as an input.
IsReady(row) == row.status = "ready"

\* The quota gate applied to every request, whatever its header.
QuotaAppliesAlways(pro) == TRUE

\* requestMatch: isPro = (header x-pro-member === "1"); the quota block and the
\* increment are inside if (!isPro).
QuotaApplies(pro) == ~pro

\* ensureUser, then the quota gate on the row it returned: 402 when a caller
\* without the x-pro-member header is at or over the limit.
RequestMatchBegin(i, c, pro, rid, jid) ==
  /\ reqs[i].pc = "new"
  /\ users' = IF rid = NullId \/ jid = NullId THEN users ELSE ensureUser(users, c)
  /\ LET user == users'[UserId(c)]
         r == [reqs[i] EXCEPT !.caller = c, !.isPro = pro, !.resumeId = rid,
                              !.jobId = jid, !.op = "POST /matches"]
     IN  reqs' = [reqs EXCEPT ![i] =
           IF rid = NullId \/ jid = NullId
             THEN [r EXCEPT !.pc = "done", !.http = 400,
                            !.error = "resumeId_and_jobId_required"]
           ELSE IF QuotaApplies(pro) /\ OverLimit(user)
             THEN [r EXCEPT !.pc = "done", !.http = 402,
                            !.error = "upgrade_required"]
           ELSE IF QuotaApplies(pro) THEN [r EXCEPT !.pc = "inc_read"]
           ELSE [r EXCEPT !.pc = "get_resume"]]
  /\ UNCHANGED <<pool, job_soft_skills, now, resumes, candidate_skills, jobs, requirements, match_jobs,
                 matches, queues, worker, busVars>>

\* incrementAnnualUsage, its SELECT of the current counters and the decision.
RequestMatchIncRead(i) ==
  /\ reqs[i].pc = "inc_read"
  /\ reqs' = [reqs EXCEPT ![i].cur = UsageUpdate(users[UserId(reqs[i].caller)], now),
                          ![i].pc = "inc_write"]
  /\ UNCHANGED <<pool, job_soft_skills, now, dbVars, queues, worker, busVars>>

\* incrementAnnualUsage, its UPDATE computed from the counters read before.
RequestMatchIncWrite(i) ==
  /\ reqs[i].pc = "inc_write"
  /\ users' = incrementAnnualUsage(users, UserId(reqs[i].caller), reqs[i].cur, now)
  /\ reqs' = [reqs EXCEPT ![i].pc = "get_resume", ![i].cur = NoRow]
  /\ UNCHANGED <<pool, job_soft_skills, now, resumes, candidate_skills, jobs, requirements, match_jobs,
                 matches, queues, worker, busVars>>

\* getResumeForUser: 404 resume_not_found, 409 resume_not_ready, or go on.
RequestMatchGetResume(i) ==
  /\ reqs[i].pc = "get_resume"
  /\ LET resume == getResumeForUser(resumes, reqs[i].resumeId,
                                    UserId(reqs[i].caller))
     IN  IF resume = NoRow THEN Respond(i, 404, "resume_not_found")
         ELSE IF ~IsReady(resume) THEN Respond(i, 409, "resume_not_ready")
         ELSE reqs' = [reqs EXCEPT ![i].pc = "get_job"]
  /\ UNCHANGED <<pool, job_soft_skills, now, dbVars, queues, worker, busVars>>

\* getJobForUser: 404 job_not_found, 409 job_not_ready, or go on.
RequestMatchGetJob(i) ==
  /\ reqs[i].pc = "get_job"
  /\ LET job == getJobForUser(jobs, reqs[i].jobId, UserId(reqs[i].caller))
     IN  IF job = NoRow THEN Respond(i, 404, "job_not_found")
         ELSE IF ~IsReady(job) THEN Respond(i, 409, "job_not_ready")
         ELSE reqs' = [reqs EXCEPT ![i].pc = "create"]
  /\ UNCHANGED <<pool, job_soft_skills, now, dbVars, queues, worker, busVars>>

\* createMatchJob: INSERT, SELECT, bus.emit("match.status.changed", queued).
RequestMatchCreate(i) ==
  /\ reqs[i].pc = "create"
  /\ HasFreshId(match_jobs)
  /\ LET matchJobId == FreshId(match_jobs)
     IN  /\ match_jobs' = createMatchJob(match_jobs, matchJobId,
                            UserId(reqs[i].caller), reqs[i].resumeId,
                            reqs[i].jobId, now)
         /\ Emit("match", matchJobId, "queued")
         /\ reqs' = [reqs EXCEPT ![i].pc = "enqueue",
                                 ![i].matchJobId = matchJobId]
  /\ UNCHANGED <<pool, job_soft_skills, now, users, resumes, candidate_skills, jobs, requirements,
                 matches, queues, worker, listeners, registerCalls, lastPush>>

\* await queues.computeMatch.add, then 202 with the match job id; or the add
\* rejects and the catch hands the error to the error handler of app.js (500).
RequestMatchEnqueue(i) ==
  /\ reqs[i].pc = "enqueue"
  /\ reqs[i].op = "POST /matches"
  /\ \/ /\ queues' = Enqueue(queues, "computeMatch",
                       [NoJob EXCEPT !.id = reqs[i].matchJobId,
                                     !.resumeId = reqs[i].resumeId,
                                     !.jobId = reqs[i].jobId,
                                     !.userId = UserId(reqs[i].caller)])
        /\ Respond(i, 202, Null)
     \/ /\ UNCHANGED queues
        /\ Respond(i, 500, "internal_error")
  /\ UNCHANGED <<pool, job_soft_skills, now, dbVars, worker, busVars>>

\* The steps of requestMatch after the quota gate.
RequestMatchSteps(i) ==
  \/ RequestMatchGetResume(i)
  \/ RequestMatchGetJob(i)
  \/ RequestMatchCreate(i)
  \/ RequestMatchEnqueue(i)

\* requestMatch of a caller sending x-pro-member: 1 (no quota steps).
requestMatchPro(i, callers) ==
  \/ \E c \in callers, rid \in ResumeIds, jid \in JobIds :
       RequestMatchBegin(i, c, TRUE, rid, jid)
  \/ RequestMatchSteps(i)

\* requestMatch, with or without the header. Request slots are taken in order.
requestMatch(i, callers) ==
  \/ \E c \in callers, pro \in BOOLEAN, rid \in ResumeIds, jid \in JobIds :
       /\ \A k \in ReqIds : k < i => reqs[k].pc # "new"
       /\ RequestMatchBegin(i, c, pro, rid, jid)
  \/ RequestMatchIncRead(i)
  \/ RequestMatchIncWrite(i)
  \/ RequestMatchSteps(i)

\* Time passes.
Tick ==
  /\ \E d \in TickDays : now + d <= MaxNow /\ now' = now + d
  /\ UNCHANGED <<pool, job_soft_skills, dbVars, queues, worker, reqs, busVars>>

\* ---------------------------------------- uploadResume, createJob by steps
\* The file part of a request: none, one the handlers take, one of a type
\* outside ALLOWED_MIME_TYPES, one over 10 MB.
Files == {"none", "ok", "bad_type", "too_large"}
Pass == [http |-> 0, error |-> Null]

\* upload.single("file") of the routers, limits.fileSize 10 MB: multer rejects
\* a larger file and the error goes to the error handler of app.js.
multerCheck(file) ==
  IF file = "too_large" THEN [http |-> 500, error |-> "internal_error"] ELSE Pass

\* The checks of uploadResume with no effect on them.
uploadResumeCheckNone(file) == Pass

\* uploadResume, its checks of req.file before ensureUser.
uploadResumeCheck(file) ==
  IF file = "none" THEN [http |-> 400, error |-> "file is required"]
  ELSE IF file = "too_large" THEN [http |-> 413, error |-> "file too large (max 10MB)"]
  ELSE IF file = "bad_type" THEN [http |-> 415, error |-> "unsupported file type"]
  ELSE Pass

\* uploadResume up to createResume: multer, the checks, then ensureUser,
\* uuidv4, the INSERT.
UploadResumeCreate(i, c, file) ==
  /\ Free(i)
  /\ LET r == [ApiReq(c, "POST /resumes", "resume", NullId) EXCEPT !.body.file = file]
         m == multerCheck(file)
         v == IF m # Pass THEN m ELSE uploadResumeCheck(file)
     IN  IF v # Pass
           THEN /\ Answer(i, r, v.http, v.error, {})
                /\ UNCHANGED <<users, resumes>>
           ELSE /\ HasFreshId(resumes)
                /\ users' = ensureUser(users, c)
                /\ resumes' = createResume(resumes, FreshId(resumes), UserId(c), now)
                /\ reqs' = [reqs EXCEPT ![i] =
                              [r EXCEPT !.pc = "put",
                                        !.resumeId = FreshId(resumes)]]
  /\ UNCHANGED <<pool, job_soft_skills, now, candidate_skills, jobs, requirements, match_jobs, matches,
                 queues, worker, busVars>>

\* The catch around putObject when the parse job had been added before it.
StorageWriteFailedLate(i) ==
  /\ Respond(i, 500, "storage_write_failed")
  /\ queues' = IF reqs[i].op = "POST /resumes"
                 THEN Enqueue(queues, "parseResume",
                        [NoJob EXCEPT !.id = reqs[i].resumeId,
                                      !.resumeId = reqs[i].resumeId,
                                      !.userId = UserId(reqs[i].caller),
                                      !.source = "file"])
                 ELSE Enqueue(queues, "parseJob",
                        [NoJob EXCEPT !.id = reqs[i].jobId,
                                      !.jobId = reqs[i].jobId,
                                      !.userId = UserId(reqs[i].caller),
                                      !.source = "file"])

\* The catch around putObject: 500 storage_write_failed and return, before
\* queue.add is reached.
StorageWriteFailed(i) ==
  /\ Respond(i, 500, "storage_write_failed")
  /\ UNCHANGED queues

\* putObject in its own try: written, or 500 storage_write_failed.
UploadResumePut(i) ==
  /\ reqs[i].pc = "put"
  /\ reqs[i].op = "POST /resumes"
  /\ \/ /\ reqs' = [reqs EXCEPT ![i].pc = "enqueue"]
        /\ UNCHANGED queues
     \/ StorageWriteFailed(i)
  /\ UNCHANGED <<pool, job_soft_skills, now, dbVars, worker, busVars>>

\* await queues.parseResume.add, then 202 with the resume id; or next(err) (500).
UploadResumeEnqueue(i) ==
  /\ reqs[i].pc = "enqueue"
  /\ reqs[i].op = "POST /resumes"
  /\ \/ /\ queues' = Enqueue(queues, "parseResume",
                       [NoJob EXCEPT !.id = reqs[i].resumeId,
                                     !.resumeId = reqs[i].resumeId,
                                     !.userId = UserId(reqs[i].caller),
                                     !.source = "file"])
        /\ Respond(i, 202, Null)
     \/ /\ UNCHANGED queues
        /\ Respond(i, 500, "internal_error")
  /\ UNCHANGED <<pool, job_soft_skills, now, dbVars, worker, busVars>>

uploadResumeSteps(i, c, files) ==
  \/ \E file \in files : UploadResumeCreate(i, c, file)
  \/ UploadResumePut(i)
  \/ UploadResumeEnqueue(i)

\* The bodies of POST /jobs: a title or none, a file part, a text (text or
\* description_text) or none.
JobBodies == [title : BOOLEAN, file : Files, text : BOOLEAN]

\* createJob, its checks of the body before ensureUser.
createJobCheckBody(body) ==
  IF ~body.title THEN [http |-> 400, error |-> "title_required"]
  ELSE IF body.file = "none" /\ ~body.text
    THEN [http |-> 400, error |-> "file_or_text_required"]
  ELSE Pass

\* createJob, its checks of the file after ensureUser.
createJobCheckFile(body) ==
  IF body.file = "too_large" THEN [http |-> 413, error |-> "file too large (max 10MB)"]
  ELSE IF body.file = "bad_type" THEN [http |-> 415, error |-> "unsupported file type"]
  ELSE Pass

\* createJob up to createJobRecord: multer (multipart requests), the checks
\* of the body, ensureUser, uuidv4, the checks of the file, the INSERT; a file
\* is then written to storage, a text goes to the queue at once.
CreateJobCreate(i, c, body) ==
  /\ Free(i)
  /\ LET r == [ApiReq(c, "POST /jobs", "job", NullId) EXCEPT !.body = body]
         m == multerCheck(body.file)
         early == IF m # Pass THEN m ELSE createJobCheckBody(body)
         late == createJobCheckFile(body)
         source == IF body.file # "none" THEN "file" ELSE "text"
     IN  IF early # Pass
           THEN /\ Answer(i, r, early.http, early.error, {})
                /\ UNCHANGED <<users, jobs>>
         ELSE IF late # Pass
           THEN /\ users' = ensureUser(users, c)
                /\ Answer(i, r, late.http, late.error, {})
                /\ UNCHANGED jobs
         ELSE /\ HasFreshId(jobs)
              /\ users' = ensureUser(users, c)
              /\ jobs' = createJobRecord(jobs, FreshId(jobs), UserId(c), source, now)
              /\ reqs' = [reqs EXCEPT ![i] =
                            [r EXCEPT !.jobId = FreshId(jobs),
                                      !.pc = IF source = "file" THEN "put"
                                                                ELSE "enqueue"]]
  /\ UNCHANGED <<pool, job_soft_skills, now, resumes, candidate_skills, requirements, match_jobs,
                 matches, queues, worker, busVars>>

\* if (file) putObject in its own try: written, or 500 storage_write_failed.
CreateJobPut(i) ==
  /\ reqs[i].pc = "put"
  /\ reqs[i].op = "POST /jobs"
  /\ \/ /\ reqs' = [reqs EXCEPT ![i].pc = "enqueue"]
        /\ UNCHANGED queues
     \/ StorageWriteFailed(i)
  /\ UNCHANGED <<pool, job_soft_skills, now, dbVars, worker, busVars>>

\* await queues.parseJob.add, then 202 with the job id; or next(err) (500).
CreateJobEnqueue(i) ==
  /\ reqs[i].pc = "enqueue"
  /\ reqs[i].op = "POST /jobs"
  /\ \/ /\ queues' = Enqueue(queues, "parseJob",
                       [NoJob EXCEPT !.id = reqs[i].jobId,
                                     !.jobId = reqs[i].jobId,
                                     !.userId = UserId(reqs[i].caller),
                                     !.source = jobs[reqs[i].jobId].source])
        /\ Respond(i, 202, Null)
     \/ /\ UNCHANGED queues
        /\ Respond(i, 500, "internal_error")
  /\ UNCHANGED <<pool, job_soft_skills, now, dbVars, worker, busVars>>

createJobSteps(i, c, bodies) ==
  \/ \E body \in bodies : CreateJobCreate(i, c, body)
  \/ CreateJobPut(i)
  \/ CreateJobEnqueue(i)

\* ----------------------------------------------- reads and deletes of the API
\* A list handler: getUserId, [] when the user is unknown, else the list query.
ListHandler(i, c, op, fam, rows) ==
  /\ Free(i)
  /\ Answer(i, ApiReq(c, op, fam, NullId), 200, Null,
            IF getUserId(users, c) = NoUser THEN {} ELSE rows)
  /\ UNCHANGED <<pool, job_soft_skills, now, dbVars, queues, worker, busVars>>

\* A detail handler: getUserId, the row read for the caller, 404 not_found
\* when either is missing.
DetailHandler(i, c, op, fam, id, row) ==
  /\ Free(i)
  /\ IF getUserId(users, c) = NoUser \/ row = NoRow
       THEN Answer(i, ApiReq(c, op, fam, id), 404, "not_found", {})
       ELSE Answer(i, ApiReq(c, op, fam, id), 200, Null, {id})
  /\ UNCHANGED <<pool, job_soft_skills, now, dbVars, queues, worker, busVars>>

listResumeSummaries(i, c) ==
  ListHandler(i, c, "GET /resumes", "resume", listResumes(resumes, UserId(c)))

getResumeDetail(i, c, id) ==
  DetailHandler(i, c, "GET /resumes/:id", "resume", id,
                getResumeForUser(resumes, id, UserId(c)))

listJobSummaries(i, c) ==
  ListHandler(i, c, "GET /jobs", "job", listJobs(jobs, UserId(c)))

getJobDetail(i, c, id) ==
  DetailHandler(i, c, "GET /jobs/:id", "job", id,
                getJobForUser(jobs, id, UserId(c)))

listMatchStatuses(i, c) ==
  ListHandler(i, c, "GET /matches", "match", listMatchJobs(match_jobs, UserId(c)))

getMatchDetail(i, c, id) ==
  DetailHandler(i, c, "GET /matches/:id", "match", id,
                getMatchJobForUser(match_jobs, id, UserId(c)))

\* A request for a method and path no router handles: Express answers 404
\* ("Cannot DELETE ...") and nothing is written.
NoRoute(i, c, op, fam, id) ==
  /\ Free(i)
  /\ Answer(i, ApiReq(c, op, fam, id), 404, "no_route", {})
  /\ UNCHANGED <<pool, job_soft_skills, now, dbVars, queues, worker, busVars>>

\* DELETE /api/v1/jobs/:id: the jobs router has get("/"), get("/:id") and
\* post("/") only; the deleteJob handler the controller exports is mounted nowhere.
requestDeleteJob(i, c, id) == NoRoute(i, c, "DELETE /jobs/:id", "job", id)

\* DELETE /api/v1/resumes/:id: the resumes router has no delete route, and
\* neither the controller nor the service has a delete operation.
requestDeleteResume(i, c, id) ==
  NoRoute(i, c, "DELETE /resumes/:id", "resume", id)

\* ------------------------------------------------------- create, called again
\* A caller of the service calls createResume with an id of its choosing,
\* fresh or not, for any owner; the call is recorded in request slot i.
CreateResumeCall(i, c, id) ==
  /\ Free(i)
  /\ resumes' = createResume(resumes, id, UserId(c), now)
  /\ reqs' = [reqs EXCEPT ![i] =
                [ApiReq(c, "createResume", "resume", id) EXCEPT !.pc = "done"]]
  /\ UNCHANGED <<pool, job_soft_skills, now, users, candidate_skills, jobs, requirements, match_jobs,
                 matches, queues, worker, busVars>>

\* The same for createJobRecord, with any source.
CreateJobRecordCall(i, c, id, source) ==
  /\ Free(i)
  /\ jobs' = createJobRecord(jobs, id, UserId(c), source, now)
  /\ reqs' = [reqs EXCEPT ![i] =
                [ApiReq(c, "createJobRecord", "job", id) EXCEPT !.pc = "done"]]
  /\ UNCHANGED <<pool, job_soft_skills, now, users, resumes, candidate_skills, requirements,
                 match_jobs, matches, queues, worker, busVars>>

\* ------------------------------------------------------ createPoolWithRetry
\* err.code of a failed sql.connect: four codes the code takes for transient,
\* another code, or no code at all.
TransientCodes == {"ETIMEOUT", "ESOCKET", "ELOGIN", "ECONNRESET"}
ErrorCodes == TransientCodes \cup {"EINSTLOOKUP", Null}
transient(code) == code # Null /\ code \in TransientCodes

\* A backoff that does not grow with the attempt.
BackoffFlat(attempt) == RETRY_BACKOFF_MS

\* delay = RETRY_BACKOFF_MS * attempt.
Backoff(attempt) == RETRY_BACKOFF_MS * attempt

\* The pool of a process whose poolPromise has resolved.
Connected == [pc |-> "returned", RETRY_ATTEMPTS |-> 1, attempt |-> 1, tries |-> 1,
              lastErr |-> "undefined", delay |-> 0, result |-> "pool"]

\* createPoolWithRetry entered with SQL_RETRY_ATTEMPTS = n: attempt = 1 and the
\* loop test.
PoolStart(n) ==
  [pc |-> IF 1 <= n THEN "connect" ELSE "throw", RETRY_ATTEMPTS |-> n,
   attempt |-> 1, tries |-> 0, lastErr |-> "undefined", delay |-> 0,
   result |-> "none"]

\* await sql.connect(baseConfig): the pool is returned, or the catch block
\* keeps the error and breaks out of the loop or computes the delay.
PoolConnect ==
  /\ pool.pc = "connect"
  /\ \/ pool' = [pool EXCEPT !.pc = "returned", !.tries = @ + 1, !.result = "pool"]
     \/ \E code \in ErrorCodes :
          pool' = [pool EXCEPT
                     !.tries = @ + 1,
                     !.lastErr = code,
                     !.pc = IF ~transient(code) THEN "throw"
                            ELSE IF pool.attempt = pool.RETRY_ATTEMPTS THEN "throw"
                            ELSE "wait",
                     !.delay = IF transient(code)
                                  /\ pool.attempt # pool.RETRY_ATTEMPTS
                               THEN Backoff(pool.attempt) ELSE @]
  /\ UNCHANGED <<job_soft_skills, now, dbVars, queues, worker, reqs, busVars>>

\* The timer of the delay fires: attempt += 1 and the loop test.
PoolWait ==
  /\ pool.pc = "wait"
  /\ pool' = [pool EXCEPT !.attempt = @ + 1,
                          !.pc = IF pool.attempt + 1 <= pool.RETRY_ATTEMPTS
                                 THEN "connect" ELSE "throw"]
  /\ UNCHANGED <<job_soft_skills, now, dbVars, queues, worker, reqs, busVars>>

\* throw lastErr.
PoolThrow ==
  /\ pool.pc = "throw"
  /\ pool' = [pool EXCEPT !.pc = "thrown", !.result = pool.lastErr]
  /\ UNCHANGED <<job_soft_skills, now, dbVars, queues, worker, reqs, busVars>>

createPoolWithRetry ==
  \/ PoolConnect
  \/ PoolWait
  \/ PoolThrow

\* ---------------------------------------------------------- specifications
EmptyTable(ids) == [id \in ids |-> NoRow]

InitCommon ==
  /\ now = 0
  /\ pool = Connected
  /\ job_soft_skills = [j \in JobIds |-> NoRows]
  /\ candidate_skills = [r \in ResumeIds |-> NoRows]
  /\ requirements = [j \in JobIds |-> NoRows]
  /\ match_jobs = EmptyTable(MatchJobIds)
  /\ matches = EmptyTable(MatchIds)
  /\ queues = [q \in QueueNames |-> <<>>]
  /\ worker = [w \in WorkerIds |-> IF w \in QueueNames THEN Idle ELSE Off]
  /\ reqs = [i \in ReqIds |-> NewReq]
  /\ pending = [k \in PendingKeys |-> 0]
  /\ lastEvent = NoEvent
  /\ lastPush = NoPush

\* Request slot the pipeline specifications drive.
MainReqs == {1}

\* Pipeline specification: the API and the three Workers on empty tables as
\* server.js starts them, with no bridge handler on the bus. Uploads, job
\* creation, match requests and the processors interleave; a job may be
\* delivered again.
Init ==
  /\ users = EmptyTable(UserIds)
  /\ resumes = EmptyTable(ResumeIds)
  /\ jobs = EmptyTable(JobIds)
  /\ InitCommon
  /\ listeners = [fam \in Families |-> <<>>]
  /\ registerCalls = 0

Next ==
  \/ \E c \in Callers : uploadResume(c)
  \/ \E c \in Callers, source \in {"file", "text"} : createJob(c, source)
  \/ processParseResume
  \/ processParseJob("parseJob")
  \/ processComputeMatch
  \/ \E i \in MainReqs : requestMatchPro(i, Callers)

Spec == Init /\ [][Next]_vars

\* Bridge specification: the process after startServer registered the three
\* listeners, caller 1 holding a parsed resume. Jobs are created and parsed,
\* matches requested and computed, the bridge handlers run, and the listeners
\* may be registered again.
InitBridge ==
  /\ users = [EmptyTable(UserIds) EXCEPT ![UserId(1)] = NewUserRow(Auth0Sub(1))]
  /\ resumes = [EmptyTable(ResumeIds) EXCEPT ![1] =
                  [user_id |-> UserId(1), status |-> "ready",
                   parsed_summary |-> "summary", created_at |-> 0]]
  /\ jobs = EmptyTable(JobIds)
  /\ InitCommon
  /\ listeners = RegisterAll([fam \in Families |-> <<>>])
  /\ registerCalls = 1

NextBridge ==
  \/ \E c \in Callers, source \in {"file", "text"} : createJob(c, source)
  \/ processParseJob("parseJob")
  \/ processComputeMatch
  \/ \E i \in MainReqs : requestMatchPro(i, Callers)
  \/ \E k \in PendingKeys : BridgeHandle(k[1], k[2])
  \/ RegisterStatusListeners

SpecBridge == InitBridge /\ [][NextBridge]_vars

\* Quota specification: caller 1 has a users row with counters an earlier
\* history left, and a resume and a parsed job; POST /matches requests run
\* concurrently while time passes.
InitQuota ==
  /\ \E limit \in InitLimits, count \in 0..2, start \in {NullTime, 0} :
       /\ count <= limit
       /\ start = NullTime => count = 0
       /\ users = [EmptyTable(UserIds) EXCEPT ![UserId(1)] =
                     [auth0_sub |-> Auth0Sub(1), annual_limit |-> limit,
                      annual_usage_count |-> count,
                      annual_period_start |-> start]]
  /\ \E st \in {"ready", "processing"} :
       resumes = [EmptyTable(ResumeIds) EXCEPT ![1] =
                    [user_id |-> UserId(1), status |-> st,
                     parsed_summary |-> IF st = "ready" THEN "summary" ELSE Null,
                     created_at |-> 0]]
  /\ jobs = [EmptyTable(JobIds) EXCEPT ![1] =
               [user_id |-> UserId(1), source |-> "text", status |-> "ready",
                parsed_summary |-> "summary", is_deleted |-> FALSE,
                created_at |-> 0]]
  /\ InitCommon
  /\ listeners = [fam \in Families |-> <<>>]
  /\ registerCalls = 0

NextQuota ==
  \/ \E i \in ReqIds : requestMatch(i, {1})
  \/ Tick

SpecQuota == InitQuota /\ [][NextQuota]_vars

\* Connection the API specification drives.
ApiReqs == {1}

\* API specification: caller 1 (and perhaps caller 2) has a users row, resume 1
\* is parsed, job 1 may exist parsed, and a match of the two may have failed.
\* Jobs are created and parsed while list, detail and delete requests are
\* answered.
InitApi ==
  /\ \E present \in {{1}, Callers} :
       /\ users = [u \in UserIds |-> IF \E c \in present : u = UserId(c)
                                      THEN NewUserRow(<<"sub", u[2]>>) ELSE NoRow]
       /\ \E ownerR \in present, ownerJ \in present, hasJob \in BOOLEAN,
             hasMatch \in BOOLEAN :
            /\ hasMatch => hasJob /\ ownerR = ownerJ
            /\ resumes = [EmptyTable(ResumeIds) EXCEPT ![1] =
                            [user_id |-> UserId(ownerR), status |-> "ready",
                             parsed_summary |-> "summary", created_at |-> 0]]
            /\ jobs = IF hasJob
                        THEN [EmptyTable(JobIds) EXCEPT ![1] =
                                [user_id |-> UserId(ownerJ), source |-> "text",
                                 status |-> "ready", parsed_summary |-> "summary",
                                 is_deleted |-> FALSE, created_at |-> 0]]
                        ELSE EmptyTable(JobIds)
            /\ match_jobs = IF hasMatch
                              THEN [EmptyTable(MatchJobIds) EXCEPT ![1] =
                                      [user_id |-> UserId(ownerR), resume_id |-> 1,
                                       job_id |-> 1, status |-> "failed",
                                       error_message |-> "message",
                                       result_id |-> NullId, created_at |-> 0]]
                              ELSE EmptyTable(MatchJobIds)
  /\ now = 0
  /\ pool = Connected
  /\ job_soft_skills = [j \in JobIds |-> NoRows]
  /\ candidate_skills = [r \in ResumeIds |-> NoRows]
  /\ requirements = [j \in JobIds |-> NoRows]
  /\ matches = EmptyTable(MatchIds)
  /\ queues = [q \in QueueNames |-> <<>>]
  /\ worker = [w \in WorkerIds |-> IF w \in QueueNames THEN Idle ELSE Off]
  /\ reqs = [i \in ReqIds |-> NewReq]
  /\ pending = [k \in PendingKeys |-> 0]
  /\ lastEvent = NoEvent
  /\ lastPush = NoPush
  /\ listeners = [fam \in Families |-> <<>>]
  /\ registerCalls = 0

NextApi ==
  \/ \E c \in Callers, source \in {"file", "text"} : createJob(c, source)
  \/ processParseJob("parseJob")
  \/ \E i \in ApiReqs, c \in Callers : listResumeSummaries(i, c)
  \/ \E i \in ApiReqs, c \in Callers, id \in ResumeIds : getResumeDetail(i, c, id)
  \/ \E i \in ApiReqs, c \in Callers, id \in ResumeIds : requestDeleteResume(i, c, id)
  \/ \E i \in ApiReqs, c \in Callers : listJobSummaries(i, c)
  \/ \E i \in ApiReqs, c \in Callers, id \in JobIds : getJobDetail(i, c, id)
  \/ \E i \in ApiReqs, c \in Callers, id \in JobIds : requestDeleteJob(i, c, id)
  \/ \E i \in ApiReqs, c \in Callers : listMatchStatuses(i, c)
  \/ \E i \in ApiReqs, c \in Callers, id \in MatchJobIds : getMatchDetail(i, c, id)

SpecApi == InitApi /\ [][NextApi]_vars

\* Overlap specification: two server processes run, each with its parseJob
\* Worker. Caller 1 creates a job; a run whose lock expires goes on while the
\* job is delivered again, possibly to the other Worker.
ParseJobWorkers == {"parseJob", "parseJob2"}

InitOverlap ==
  /\ users = EmptyTable(UserIds)
  /\ resumes = EmptyTable(ResumeIds)
  /\ jobs = EmptyTable(JobIds)
  /\ now = 0
  /\ pool = Connected
  /\ job_soft_skills = [j \in JobIds |-> NoRows]
  /\ candidate_skills = [r \in ResumeIds |-> NoRows]
  /\ requirements = [j \in JobIds |-> NoRows]
  /\ match_jobs = EmptyTable(MatchJobIds)
  /\ matches = EmptyTable(MatchIds)
  /\ queues = [q \in QueueNames |-> <<>>]
  /\ worker = [w \in WorkerIds |-> Idle]
  /\ reqs = [i \in ReqIds |-> NewReq]
  /\ pending = [k \in PendingKeys |-> 0]
  /\ lastEvent = NoEvent
  /\ lastPush = NoPush
  /\ listeners = [fam \in Families |-> <<>>]
  /\ registerCalls = 0

NextOverlap ==
  \/ \E source \in {"file", "text"} : createJob(1, source)
  \/ \E w \in ParseJobWorkers : processParseJob(w)
  \/ \E w \in ParseJobWorkers : ParseJobEmit(w)
  \/ \E w \in ParseJobWorkers : Stall(w)

SpecOverlap == InitOverlap /\ [][NextOverlap]_vars

\* Boot specification: a process in which startServer has not run yet. It is
\* invoked, possibly again; caller 1 creates jobs, the parseJob Workers the
\* process has take them, and the bridge handlers run.
InitBoot ==
  /\ users = EmptyTable(UserIds)
  /\ resumes = EmptyTable(ResumeIds)
  /\ jobs = EmptyTable(JobIds)
  /\ now = 0
  /\ pool = Connected
  /\ job_soft_skills = [j \in JobIds |-> NoRows]
  /\ candidate_skills = [r \in ResumeIds |-> NoRows]
  /\ requirements = [j \in JobIds |-> NoRows]
  /\ match_jobs = EmptyTable(MatchJobIds)
  /\ matches = EmptyTable(MatchIds)
  /\ queues = [q \in QueueNames |-> <<>>]
  /\ worker = [w \in WorkerIds |-> Off]
  /\ reqs = [i \in ReqIds |-> NewReq]
  /\ pending = [k \in PendingKeys |-> 0]
  /\ lastEvent = NoEvent
  /\ lastPush = NoPush
  /\ listeners = [fam \in Families |-> <<>>]
  /\ registerCalls = 0

NextBoot ==
  \/ startServer
  \/ \E source \in {"file", "text"} : createJob(1, source)
  \/ \E w \in ParseJobWorkers : processParseJob(w)
  \/ \E w \in ParseJobWorkers : ParseJobEmit(w)
  \/ \E k \in PendingKeys : BridgeHandle(k[1], k[2])

SpecBoot == InitBoot /\ [][NextBoot]_vars

\* Create specification: caller 1 uploads a resume and creates a job, the
\* parse Workers take them through their states, time passes, and the create
\* operations of the two services are called again with any id and owner.
NextCreate ==
  \/ uploadResume(1)
  \/ \E source \in {"file", "text"} : createJob(1, source)
  \/ processParseResume
  \/ processParseJob("parseJob")
  \/ Tick
  \/ \E i \in MainReqs, c \in Callers, id \in ResumeIds : CreateResumeCall(i, c, id)
  \/ \E i \in MainReqs, c \in Callers, id \in JobIds, source \in {"file", "text"} :
       CreateJobRecordCall(i, c, id, source)

SpecCreate == Init /\ [][NextCreate]_vars

\* Write specification: caller 1 sends POST /resumes and POST /jobs one after
\* the other on one connection and POST /matches on a second one, each handled
\* await by await, while the three Workers run.
WriteReq == 1
MatchReq == 2

\* The bodies the handlers take: a title with a file, a title with a text.
GoodBodies == {[title |-> TRUE, file |-> "ok", text |-> FALSE],
               [title |-> TRUE, file |-> "none", text |-> TRUE]}

NextWrite ==
  \/ uploadResumeSteps(WriteReq, 1, {"ok"})
  \/ createJobSteps(WriteReq, 1, GoodBodies)
  \/ requestMatchPro(MatchReq, {1})
  \/ processParseResume
  \/ processParseJob("parseJob")
  \/ processComputeMatch

SpecWrite == Init /\ [][NextWrite]_vars

\* Boundary specification: on empty tables, or on tables holding parsed rows,
\* caller 1 sends POST /resumes and POST /jobs with every file part and body,
\* and POST /matches with or without its ids; the Workers are not running.
InitBoundary == Init \/ InitApi

NextBoundary ==
  \/ uploadResumeSteps(WriteReq, 1, Files)
  \/ createJobSteps(WriteReq, 1, JobBodies)
  \/ \E rid \in ResumeIds \cup {NullId}, jid \in JobIds \cup {NullId} :
       RequestMatchBegin(MatchReq, 1, TRUE, rid, jid)
  \/ RequestMatchSteps(MatchReq)

SpecBoundary == InitBoundary /\ [][NextBoundary]_vars

\* Delete specification: jobs are created and parsed while the deleteJob
\* handler of the controller runs for them.
NextDelete ==
  \/ \E c \in Callers, source \in {"file", "text"} : createJob(c, source)
  \/ processParseJob("parseJob")
  \/ \E c \in Callers, id \in JobIds : deleteJob(c, id)

SpecDelete == Init /\ [][NextDelete]_vars

\* Bus specification: registerSimpleStatusListener is called for
\* match.status.changed with one flag or two, matches are requested and
\* computed on parsed rows, and the handlers the events invoke run or fail.
NextBus ==
  \/ \E flag \in {"match", "second"} : RegisterSimple("match", flag)
  \/ requestMatchPro(MatchReq, {1})
  \/ processComputeMatch
  \/ \E k \in PendingKeys : BridgeHandle(k[1], k[2])

SpecBus == InitApi /\ [][NextBus]_vars

\* Summary specification: caller 1 requests matches and the computeMatch
\* Worker computes them against a match engine that answers with any details
\* array of up to MaxDetails entries.
NextSummary ==
  \/ requestMatchPro(MatchReq, {1})
  \/ processComputeMatchWith(DetailsArrays)

SpecSummary == InitApi /\ [][NextSummary]_vars

\* Access specification: on tables that are empty, or hold rows of caller 1 or
\* of caller 2, both callers ask for the detail of any id, send DELETE for
\* it, and request a match for any pair of ids, with and without the Pro flag.
NextAccess ==
  \/ \E c \in Callers, id \in ResumeIds : getResumeDetail(WriteReq, c, id)
  \/ \E c \in Callers, id \in JobIds : getJobDetail(WriteReq, c, id)
  \/ \E c \in Callers, id \in MatchJobIds : getMatchDetail(WriteReq, c, id)
  \/ \E c \in Callers, id \in ResumeIds : requestDeleteResume(WriteReq, c, id)
  \/ \E c \in Callers, id \in JobIds : requestDeleteJob(WriteReq, c, id)
  \/ \E c \in Callers, pro \in BOOLEAN, rid \in ResumeIds, jid \in JobIds :
       RequestMatchBegin(MatchReq, c, pro, rid, jid)
  \/ RequestMatchIncRead(MatchReq)
  \/ RequestMatchIncWrite(MatchReq)
  \/ RequestMatchSteps(MatchReq)

SpecAccess == InitBoundary /\ [][NextAccess]_vars

\* incrementAnnualUsage(userId) called for the user of subject c: its SELECT.
\* No row: it throws user_not_found. Otherwise reset and newCount are computed
\* from the row.
IncrementAnnualUsageSelect(i, c) ==
  /\ Free(i)
  /\ LET row == users[UserId(c)]
         r == [NewReq EXCEPT !.caller = c, !.op = "incrementAnnualUsage"]
     IN  IF row = NoRow
         THEN reqs' = [reqs EXCEPT ![i] = [r EXCEPT !.pc = "done",
                                                    !.error = "user_not_found"]]
         ELSE /\ row.annual_usage_count < MaxUsageCount
              /\ reqs' = [reqs EXCEPT ![i] = [r EXCEPT !.pc = "usage_update",
                                                       !.cur = UsageUpdate(row, now)]]
  /\ UNCHANGED <<pool, job_soft_skills, now, dbVars, queues, worker, busVars>>

\* incrementAnnualUsage, its UPDATE and return.
IncrementAnnualUsageUpdate(i) ==
  /\ reqs[i].pc = "usage_update"
  /\ users' = incrementAnnualUsage(users, UserId(reqs[i].caller), reqs[i].cur, now)
  /\ reqs' = [reqs EXCEPT ![i].pc = "done"]
  /\ UNCHANGED <<pool, job_soft_skills, now, resumes, candidate_skills, jobs, requirements, match_jobs,
                 matches, queues, worker, busVars>>

\* Days since the start of the window at which the calls are made.
UsageTimes == {0, 365, 366}

\* Usage specification: caller 1 has a users row with counters an earlier
\* history left, caller 2 has none; incrementAnnualUsage is called for either,
\* one call after the other, at one of UsageTimes.
InitUsage ==
  /\ \E limit \in InitLimits, count \in 0..2, start \in {NullTime, 0} :
       /\ start = NullTime => count = 0
       /\ users = [EmptyTable(UserIds) EXCEPT ![UserId(1)] =
                     [auth0_sub |-> Auth0Sub(1), annual_limit |-> limit,
                      annual_usage_count |-> count,
                      annual_period_start |-> start]]
  /\ resumes = EmptyTable(ResumeIds)
  /\ jobs = EmptyTable(JobIds)
  /\ now \in UsageTimes
  /\ pool = Connected
  /\ job_soft_skills = [j \in JobIds |-> NoRows]
  /\ candidate_skills = [r \in ResumeIds |-> NoRows]
  /\ requirements = [j \in JobIds |-> NoRows]
  /\ match_jobs = EmptyTable(MatchJobIds)
  /\ matches = EmptyTable(MatchIds)
  /\ queues = [q \in QueueNames |-> <<>>]
  /\ worker = [w \in WorkerIds |-> IF w \in QueueNames THEN Idle ELSE Off]
  /\ reqs = [i \in ReqIds |-> NewReq]
  /\ pending = [k \in PendingKeys |-> 0]
  /\ lastEvent = NoEvent
  /\ lastPush = NoPush
  /\ listeners = [fam \in Families |-> <<>>]
  /\ registerCalls = 0

NextUsage ==
  \/ \E c \in Callers : IncrementAnnualUsageSelect(WriteReq, c)
  \/ IncrementAnnualUsageUpdate(WriteReq)

SpecUsage == InitUsage /\ [][NextUsage]_vars

\* Fair pipeline specification: caller 1 uploads a resume, creates jobs and
\* requests matches, and the Worker of each queue keeps running: a job that
\* waits is taken, and every await of a processor returns or fails.
NextFair ==
  \/ uploadResume(1)
  \/ \E source \in {"file", "text"} : createJob(1, source)
  \/ requestMatchPro(MatchReq, {1})
  \/ processParseResume
  \/ processParseJob("parseJob")
  \/ processComputeMatch

SpecFair ==
  /\ Init
  /\ [][NextFair]_vars
  /\ WF_vars(processParseResume)
  /\ WF_vars(processParseJob("parseJob"))
  /\ WF_vars(processComputeMatch)

\* Emit specification: the process of the API specification after startServer,
\* with a throwing listener on each status event, before or after the bridge
\* handler. Caller 1 creates jobs and requests matches, the Workers run, and
\* the deleteJob handler runs.
InitEmit ==
  /\ \E first \in BOOLEAN :
       listeners = [fam \in Families |->
                      IF first THEN <<Throwing>> \o RegisterAll([f \in Families |-> <<>>])[fam]
                      ELSE Append(RegisterAll([f \in Families |-> <<>>])[fam], Throwing)]
  /\ registerCalls = 1
  /\ users = [EmptyTable(UserIds) EXCEPT ![UserId(1)] = NewUserRow(Auth0Sub(1))]
  /\ resumes = [EmptyTable(ResumeIds) EXCEPT ![1] =
                  [user_id |-> UserId(1), status |-> "ready",
                   parsed_summary |-> "summary", created_at |-> 0]]
  /\ jobs = EmptyTable(JobIds)
  /\ InitCommon

NextEmit ==
  \/ \E source \in {"file", "text"} : createJob(1, source)
  \/ processParseJob("parseJob")
  \/ requestMatchPro(MatchReq, {1})
  \/ processComputeMatch
  \/ \E id \in JobIds : deleteJob(1, id)

SpecEmit == InitEmit /\ [][NextEmit]_vars

\* Drop specification: the process after startServer with a job waiting on
\* the parseJob queue whose row is gone from the database, or belongs to a
\* user without a users row (the LEFT JOIN gives a null auth0_sub), or belongs
\* to caller 1. The Worker runs the job and the bridge handlers read.
InitDrop ==
  /\ users = [EmptyTable(UserIds) EXCEPT ![UserId(1)] = NewUserRow(Auth0Sub(1))]
  /\ resumes = EmptyTable(ResumeIds)
  /\ \E source \in {"file", "text"} :
       /\ \E owner \in Callers \cup {0} :
            jobs = IF owner = 0 THEN EmptyTable(JobIds)
                   ELSE [EmptyTable(JobIds) EXCEPT ![1] =
                           [user_id |-> UserId(owner), source |-> source,
                            status |-> "queued", parsed_summary |-> Null,
                            is_deleted |-> FALSE, created_at |-> 0]]
       /\ queues = [q \in QueueNames |->
                      IF q = "parseJob"
                      THEN <<[NoJob EXCEPT !.id = 1, !.jobId = 1,
                                           !.userId = UserId(1), !.source = source]>>
                      ELSE <<>>]
  /\ now = 0
  /\ pool = Connected
  /\ job_soft_skills = [j \in JobIds |-> NoRows]
  /\ candidate_skills = [r \in ResumeIds |-> NoRows]
  /\ requirements = [j \in JobIds |-> NoRows]
  /\ match_jobs = EmptyTable(MatchJobIds)
  /\ matches = EmptyTable(MatchIds)
  /\ worker = [w \in WorkerIds |-> IF w \in QueueNames THEN Idle ELSE Off]
  /\ reqs = [i \in ReqIds |-> NewReq]
  /\ pending = [k \in PendingKeys |-> 0]
  /\ lastEvent = NoEvent
  /\ lastPush = NoPush
  /\ listeners = RegisterAll([fam \in Families |-> <<>>])
  /\ registerCalls = 1

NextDrop ==
  \/ processParseJob("parseJob")
  \/ \E k \in PendingKeys : BridgeHandle(k[1], k[2])

SpecDrop == InitDrop /\ [][NextDrop]_vars

\* Pool specification: db.js is loaded with SQL_RETRY_ATTEMPTS set to any value
\* up to MaxRetryAttempts and createPoolWithRetry runs, each sql.connect
\* succeeding or failing with any error.
InitPool ==
  /\ \E n \in 0..MaxRetryAttempts : pool = PoolStart(n)
  /\ job_soft_skills = [j \in JobIds |-> NoRows]
  /\ now = 0
  /\ users = EmptyTable(UserIds)
  /\ resumes = EmptyTable(ResumeIds)
  /\ jobs = EmptyTable(JobIds)
  /\ candidate_skills = [r \in ResumeIds |-> NoRows]
  /\ requirements = [j \in JobIds |-> NoRows]
  /\ match_jobs = EmptyTable(MatchJobIds)
  /\ matches = EmptyTable(MatchIds)
  /\ queues = [q \in QueueNames |-> <<>>]
  /\ worker = [w \in WorkerIds |-> Off]
  /\ reqs = [i \in ReqIds |-> NewReq]
  /\ pending = [k \in PendingKeys |-> 0]
  /\ lastEvent = NoEvent
  /\ lastPush = NoPush
  /\ listeners = [fam \in Families |-> <<>>]
  /\ registerCalls = 0

SpecPool == InitPool /\ [][createPoolWithRetry]_vars

\* Refusal specification: caller 1 has counters below the limit and a resume,
\* ready or still processing; the job is ready or processing and belongs to
\* caller 1 or caller 2. Caller 1 sends POST /matches, one request after the
\* other, with and without the Pro header, while time passes.
InitRefuse ==
  /\ \E limit \in InitLimits, count \in 0..1, start \in {NullTime, 0} :
       /\ count < limit
       /\ start = NullTime => count = 0
       /\ users = [EmptyTable(UserIds) EXCEPT ![UserId(1)] =
                     [auth0_sub |-> Auth0Sub(1), annual_limit |-> limit,
                      annual_usage_count |-> count,
                      annual_period_start |-> start]]
  /\ \E st \in {"ready", "processing"} :
       resumes = [EmptyTable(ResumeIds) EXCEPT ![1] =
                    [user_id |-> UserId(1), status |-> st,
                     parsed_summary |-> IF st = "ready" THEN "summary" ELSE Null,
                     created_at |-> 0]]
  /\ \E st \in {"ready", "processing"}, owner \in Callers :
       jobs = [EmptyTable(JobIds) EXCEPT ![1] =
                 [user_id |-> UserId(owner), source |-> "text", status |-> st,
                  parsed_summary |-> IF st = "ready" THEN "summary" ELSE Null,
                  is_deleted |-> FALSE, created_at |-> 0]]
  /\ InitCommon
  /\ listeners = [fam \in Families |-> <<>>]
  /\ registerCalls = 0

NextRefuse ==
  \/ \E pro \in BOOLEAN, rid \in ResumeIds, jid \in JobIds :
       RequestMatchBegin(MatchReq, 1, pro, rid, jid)
  \/ RequestMatchIncRead(MatchReq)
  \/ RequestMatchIncWrite(MatchReq)
  \/ RequestMatchSteps(MatchReq)
  \/ Tick

SpecRefuse == InitRefuse /\ [][NextRefuse]_vars

\* ensureUser specification: handlers of concurrent requests call ensureUser
\* on an empty users table, each call a SELECT and then an INSERT.
NextEnsure ==
  \/ \E i \in ReqIds, c \in Callers : EnsureUserSelect(i, c)
  \/ \E i \in ReqIds : EnsureUserInsert(i)

SpecEnsure == Init /\ [][NextEnsure]_vars

\* ------------------------------------------------------------- properties
\* The row of an entity family with that id, NoRow when there is none.
RowOf(fam, id) ==
  LET tbl == CASE fam = "resume" -> resumes
               [] fam = "job" -> jobs
               [] fam = "match" -> match_jobs
               [] OTHER -> <<>>
  IN  IF id \in DOMAIN tbl THEN tbl[id] ELSE NoRow

\* The steps of the state machines of a parsed entity and of a match job.
ParseSteps == {<<"queued", "processing">>, <<"processing", "ready">>,
               <<"processing", "error">>}
MatchSteps == {<<"queued", "running">>, <<"running", "completed">>,
               <<"running", "failed">>}

\* Every status change of a row of the table, from before to after, is in steps.
ChangesAlong(before, after, ids, steps) ==
  \A id \in ids :
    (before[id] # NoRow /\ after[id] # NoRow
       /\ before[id].status # after[id].status)
      => <<before[id].status, after[id].status>> \in steps

\* C1: in every execution, redeliveries included, the status of a resume or a
\* job changes only along queued -> processing -> ready | error, and the status
\* of a match job only along queued -> running -> completed | failed; no write
\* moves a row backward.
C1_MonotoneLifecycles ==
  [][/\ ChangesAlong(resumes, resumes', ResumeIds, ParseSteps)
     /\ ChangesAlong(jobs, jobs', JobIds, ParseSteps)
     /\ ChangesAlong(match_jobs, match_jobs', MatchJobIds, MatchSteps)]_vars

\* C2: in every reachable state, the result_id of a match_jobs row is non-null
\* if and only if its status is completed.
C2_ResultIdIffCompleted ==
  \A m \in MatchJobIds :
    match_jobs[m] # NoRow =>
      (match_jobs[m].result_id # NullId <=> match_jobs[m].status = "completed")

\* The row of an entity family with that id once the step is taken.
RowAfter(fam, id) ==
  LET tbl == CASE fam = "resume" -> resumes'
               [] fam = "job" -> jobs'
               [] fam = "match" -> match_jobs'
               [] OTHER -> <<>>
  IN  IF id \in DOMAIN tbl THEN tbl[id] ELSE NoRow

\* C3: whenever a status event is emitted, a row with the event's id exists
\* and holds the status the event carries at that moment.
C3_EventCarriesRowStatus ==
  [][(\/ lastEvent' # lastEvent
      \/ \E w \in WorkerIds : worker[w].pc = "emit" /\ worker'[w].pc # "emit")
       => /\ RowAfter(lastEvent'.family, lastEvent'.id) # NoRow
          /\ RowAfter(lastEvent'.family, lastEvent'.id).status = lastEvent'.status]_vars

\* Every status change of a row of the family is emitted on the bus in that step.
WritesEmit(fam, before, after, ids) ==
  \A id \in ids :
    (before[id] # NoRow /\ after[id] # NoRow
       /\ before[id].status # after[id].status)
      => /\ lastEvent'.family = fam
         /\ lastEvent'.id = id
         /\ lastEvent'.status = after[id].status

\* C4: in each of the three families, every status write of updateStatus is
\* followed at once by the emission of the family's status.changed event for
\* that row and status.
C4_EveryStatusWriteEmits ==
  [][/\ WritesEmit("resume", resumes, resumes', ResumeIds)
     /\ WritesEmit("job", jobs, jobs', JobIds)
     /\ WritesEmit("match", match_jobs, match_jobs', MatchJobIds)]_vars

\* The entity family a websocket message is about.
PushFamily(event) == CASE event = "resume:update" -> "resume"
                       [] event = "job:update" -> "job"
                       [] event = "match:update" -> "match"
                       [] OTHER -> "none"

\* C5: every realtime message about an entity is pushed to the room user:S of
\* the external subject S of the entity's owner, never to a room keyed by an
\* internal user id or by another user's subject.
C5_PushOnlyToOwnerRoom ==
  lastPush # NoPush =>
    LET row == RowOf(PushFamily(lastPush.event), lastPush.id)
    IN  /\ row # NoRow
        /\ users[row.user_id] # NoRow
        /\ lastPush.room = <<"user", users[row.user_id].auth0_sub>>
        /\ \A u \in UserIds : lastPush.room # <<"user", u>>
        /\ \A u \in UserIds :
             (u # row.user_id /\ users[u] # NoRow)
               => lastPush.room # <<"user", users[u].auth0_sub>>

\* A job of caller 2 was pushed to caller 2's room while caller 1 has a row too.
C5_Witness ==
  /\ lastPush.event = "job:update"
  /\ lastPush.room = <<"user", Auth0Sub(2)>>
  /\ jobs[lastPush.id].user_id = UserId(2)
  /\ users[UserId(1)] # NoRow

\* C6: after any number n >= 1 of registrations each event has
\* exactly one bridge handler, and an emitted status event invokes exactly one:
\* one push per event, not n.
C6_OneHandlerPerEvent ==
  registerCalls >= 1 =>
    /\ \A fam \in Families : Len(listeners[fam]) = 1
    /\ lastEvent # NoEvent => lastEvent.invoked = 1

\* An event emitted after the second registration invoked one handler, whose
\* single push went out, and no handler invocation is left.
C6_Witness ==
  /\ lastEvent.registered >= 2
  /\ lastEvent.invoked = 1
  /\ lastPush.event = EmitEvent(lastEvent.family)
  /\ lastPush.id = lastEvent.id
  /\ lastPush.status = lastEvent.status
  /\ \A k \in PendingKeys : pending[k] = 0

\* The row exists, belongs to the caller and is visible to getForUser.
OwnedBy(row, c) == row # NoRow /\ row.user_id = UserId(c)

\* C7: a request goes on to create its match_jobs row and to enqueue only after
\* it read a resume and then a job that exist, are owned by the caller and are
\* ready at that read; a request reading an owned resume or job that is queued,
\* processing or error is answered 409, and a 409 creates no row and enqueues
\* nothing.
C7_MatchOnlyFromReadyInputs ==
  [][\A i \in ReqIds :
       LET r == reqs[i]
           q == reqs'[i]
           resume == RowOf("resume", r.resumeId)
           job == RowOf("job", r.jobId)
       IN  /\ (q.pc = "get_job" /\ r.pc # "get_job")
                => /\ r.pc = "get_resume"
                   /\ OwnedBy(resume, r.caller)
                   /\ resume.status = "ready"
           /\ (q.pc = "create" /\ r.pc # "create")
                => /\ r.pc = "get_job"
                   /\ OwnedBy(job, r.caller)
                   /\ ~job.is_deleted
                   /\ job.status = "ready"
           /\ (q.matchJobId # r.matchJobId)
                => /\ r.pc = "create"
                   /\ match_jobs[q.matchJobId] = NoRow
                   /\ match_jobs'[q.matchJobId].resume_id = r.resumeId
                   /\ match_jobs'[q.matchJobId].job_id = r.jobId
           /\ (q.http = 202 /\ r.http # 202)
                => r.pc = "enqueue" /\ r.matchJobId # NullId
           /\ (r.pc = "get_resume" /\ q # r /\ OwnedBy(resume, r.caller)
                 /\ resume.status \in {"queued", "processing", "error"})
                => q.http = 409 /\ q.error = "resume_not_ready"
           /\ (r.pc = "get_job" /\ q # r /\ OwnedBy(job, r.caller)
                 /\ ~job.is_deleted
                 /\ job.status \in {"queued", "processing", "error"})
                => q.http = 409 /\ q.error = "job_not_ready"
           /\ (q.http = 409 /\ r.http # 409)
                => /\ q.matchJobId = NullId
                   /\ q.pc = "done"
                   /\ match_jobs' = match_jobs
                   /\ queues' = queues
           /\ (\E m \in MatchJobIds : match_jobs[m] = NoRow /\ match_jobs'[m] # NoRow)
                => \E k \in ReqIds : reqs[k].pc = "create" /\ reqs'[k].pc = "enqueue"]_vars

\* A request found its resume ready and its job not: 409 job_not_ready, and the
\* match_jobs table is still empty.
C7_Witness ==
  \E i \in ReqIds :
    /\ reqs[i].http = 409
    /\ reqs[i].error = "job_not_ready"
    /\ resumes[reqs[i].resumeId].status = "ready"
    /\ \A m \in MatchJobIds : match_jobs[m] = NoRow

\* The counters of the row say: at or over the limit, window not expired.
AtLimitInWindow(u, t) ==
  /\ u # NoRow
  /\ u.annual_usage_count >= u.annual_limit
  /\ u.annual_period_start # NullTime
  /\ t - u.annual_period_start <= WINDOW_DAYS

\* C8: a request without the privilege header by a caller whose usage count is
\* at or over the limit while the window has not expired is answered 402
\* upgrade_required; the refusal creates no match_jobs row, enqueues nothing
\* and leaves the caller's counters as they were, and the request is over.
C8_RefusedAtLimit ==
  [][\A i \in ReqIds :
       LET r == reqs[i]
           q == reqs'[i]
       IN  /\ (r.pc = "new" /\ q.pc # "new" /\ ~q.isPro
                 /\ AtLimitInWindow(users[UserId(q.caller)], now))
                => /\ q.pc = "done"
                   /\ q.http = 402
                   /\ q.error = "upgrade_required"
                   /\ q.matchJobId = NullId
                   /\ users' = users
                   /\ match_jobs' = match_jobs
                   /\ queues' = queues
           /\ r.pc = "done" => q = r]_vars

\* A request was refused 402 and the caller's row is at the limit within its window.
C8_Witness ==
  \E i \in ReqIds :
    /\ reqs[i].http = 402
    /\ ~reqs[i].isPro
    /\ AtLimitInWindow(users[UserId(reqs[i].caller)], now)

\* C9: a request without the privilege header by a caller whose usage count
\* has reached the limit but whose window has expired (period start null or
\* more than 365 days ago) is not refused with 402.
C9_NotRefusedAfterWindow ==
  [][\A i \in ReqIds :
       LET r == reqs[i]
           q == reqs'[i]
           u == users[UserId(q.caller)]
       IN  (r.pc = "new" /\ q.pc # "new" /\ ~q.isPro /\ u # NoRow
              /\ u.annual_usage_count >= u.annual_limit
              /\ (u.annual_period_start = NullTime
                    \/ now - u.annual_period_start > WINDOW_DAYS))
             => q.http # 402]_vars

\* match_jobs rows created so far by requests without the privilege header.
CreatedUnprivileged ==
  {i \in ReqIds : ~reqs[i].isPro /\ reqs[i].matchJobId # NullId}

\* C10: while all requests fall into one 365-day window, the number of
\* match_jobs rows created for the unprivileged caller is at most
\* annual_limit + 1, under every interleaving.
C10_AtMostLimitPlusOne ==
  now <= WINDOW_DAYS =>
    Cardinality(CreatedUnprivileged) <= users[UserId(1)].annual_limit + 1

\* C11: a match request carrying x-pro-member: 1 is neither checked against nor
\* counted in the quota: no step of such a request answers 402 or enters
\* incrementAnnualUsage, and every step of it leaves the users row the caller
\* had before the step as it was, whatever its counters.
C11_ProBypassesQuota ==
  [][\A i \in ReqIds :
       (reqs'[i] # reqs[i] /\ reqs'[i].isPro) =>
         /\ reqs'[i].http # 402
         /\ reqs'[i].pc \notin {"inc_read", "inc_write"}
         /\ LET uid == UserId(reqs'[i].caller)
            IN  users[uid] # NoRow => users'[uid] = users[uid]]_vars

\* A privileged request was accepted while its caller stood at the limit.
C11_Witness ==
  \E i \in ReqIds :
    /\ reqs[i].isPro
    /\ reqs[i].http = 202
    /\ AtLimitInWindow(users[UserId(reqs[i].caller)], now)

\* C12: whatever the interleaving of concurrent ensureUser calls with the same
\* subject, every call that is over returned a user (none failed), and the
\* user it returned is the one row of that subject.
C12_EveryEnsureUserReturns ==
  \A i \in ReqIds :
    reqs[i].pc = "done" =>
      /\ reqs[i].error # "duplicate_key"
      /\ reqs[i].cur # NoRow
      /\ reqs[i].cur.auth0_sub = Auth0Sub(reqs[i].caller)

\* The family of entities a route of the API reads or deletes.
OpFamily(op) ==
  CASE op \in {"GET /resumes", "GET /resumes/:id", "DELETE /resumes/:id"} -> "resume"
    [] op \in {"GET /jobs", "GET /jobs/:id", "DELETE /jobs/:id"} -> "job"
    [] op \in {"GET /matches", "GET /matches/:id"} -> "match"
    [] OTHER -> "none"

FamilyIds(fam) ==
  CASE fam = "resume" -> ResumeIds
    [] fam = "job" -> JobIds
    [] fam = "match" -> MatchJobIds
    [] OTHER -> {}

\* Ids of the rows of a family that belong to caller c and are not deleted
\* (only job rows carry a flag the core writes).
OwnedLive(fam, c) ==
  {id \in FamilyIds(fam) :
     /\ OwnedBy(RowOf(fam, id), c)
     /\ fam = "job" => ~RowOf(fam, id).is_deleted}

C14_DeleteJobSucceedsAndHides ==
  [][\A i \in ApiReqs :
       (reqs'[i] # reqs[i] /\ reqs'[i].pc = "done"
          /\ reqs'[i].op = "DELETE /jobs/:id"
          /\ reqs'[i].jobId \in OwnedLive("job", reqs'[i].caller))
         => /\ reqs'[i].http = 204
            /\ jobs'[reqs'[i].jobId].is_deleted
            /\ getJobForUser(jobs', reqs'[i].jobId, UserId(reqs'[i].caller)) = NoRow]_vars

\* C15: a DELETE /resumes/:id by the owner of a resume is answered 204 and
\* from then on the resume is hidden from the owner's GET /resumes and
\* GET /resumes/:id.
C15_DeleteResumeSucceedsAndHides ==
  [][\A i \in ApiReqs :
       (reqs'[i] # reqs[i] /\ reqs'[i].pc = "done"
          /\ reqs'[i].op = "DELETE /resumes/:id"
          /\ reqs'[i].resumeId \in OwnedLive("resume", reqs'[i].caller))
         => /\ reqs'[i].http = 204
            /\ reqs'[i].resumeId \notin listResumes(resumes', UserId(reqs'[i].caller))
            /\ getResumeForUser(resumes', reqs'[i].resumeId,
                                UserId(reqs'[i].caller)) = NoRow]_vars

\* C17: whenever a parse run writes its entity ready, the children of the
\* entity are exactly the items the NLP service returned to that run, one row
\* each, also when deliveries of the same job overlap.
C17_ChildrenEqualNlpItems ==
  [][\A w \in ParseJobWorkers :
       (worker[w].pc = "mark_ready" /\ worker'[w].pc # "mark_ready")
         => requirements'[worker[w].job.id] = SetToBag(worker[w].resp)]_vars

\* C16: a createResume or createJobRecord call with an id that already has a
\* row changes nothing: the row keeps its created_at, status, owner and other
\* columns, whatever state it has reached and whatever the arguments.
C16_CreateAgainIsNoOp ==
  [][\A i \in MainReqs :
       reqs'[i] # reqs[i] =>
         /\ (reqs'[i].op = "createResume" /\ resumes[reqs'[i].resumeId] # NoRow)
              => resumes' = resumes
         /\ (reqs'[i].op = "createJobRecord" /\ jobs[reqs'[i].jobId] # NoRow)
              => jobs' = jobs]_vars

\* createResume was called for caller 2 with the id of the parsed resume of
\* caller 1, after time had passed, and the row is as it was.
C16_Witness ==
  /\ reqs[1].op = "createResume"
  /\ reqs[1].caller = 2
  /\ resumes[reqs[1].resumeId] # NoRow
  /\ resumes[reqs[1].resumeId].user_id = UserId(1)
  /\ resumes[reqs[1].resumeId].status = "ready"
  /\ resumes[reqs[1].resumeId].created_at < now

\* C18: when a run of processParseResume or processParseJob ends by throwing
\* (a step after the transition to processing failed), the entity is in status
\* error and carries the failure message.
C18_ThrownRunMarksError ==
  [][/\ (worker["parseResume"].pc # "thrown" /\ worker'["parseResume"].pc = "thrown")
          => /\ resumes'[worker["parseResume"].job.id].status = "error"
             /\ resumes'[worker["parseResume"].job.id].parsed_summary = "message"
     /\ (worker["parseJob"].pc # "thrown" /\ worker'["parseJob"].pc = "thrown")
          => /\ jobs'[worker["parseJob"].job.id].status = "error"
             /\ jobs'[worker["parseJob"].job.id].parsed_summary = "message"]_vars

WriteFamily(r) ==
  CASE r.op = "POST /resumes" -> "resume"
    [] r.op = "POST /jobs" -> "job"
    [] r.op = "POST /matches" -> "match"
    [] OTHER -> "none"
WriteId(r) ==
  CASE r.op = "POST /resumes" -> r.resumeId
    [] r.op = "POST /jobs" -> r.jobId
    [] r.op = "POST /matches" -> r.matchJobId
    [] OTHER -> NullId
WriteQueue(r) ==
  CASE r.op = "POST /resumes" -> "parseResume"
    [] r.op = "POST /jobs" -> "parseJob"
    [] OTHER -> "computeMatch"
IsWrite(r) == WriteFamily(r) # "none" /\ WriteId(r) # NullId
InQueue(qs, q, id) == \E k \in 1..Len(qs[q]) : qs[q][k].id = id
\* C20: on POST /resumes, POST /jobs and POST /matches the 202 is sent only
\* by the step that enqueues the queue job of the same id, the row existing in
\* status queued; a failed enqueue sends no 202, enqueues nothing, and the
\* row of a request answered 500 stays queued.
C20_AcceptedAfterPersistAndEnqueue ==
  [][\A i \in ReqIds :
       /\ (reqs[i].pc # "done" /\ reqs'[i].pc = "done" /\ reqs'[i].http = 202)
            => /\ IsWrite(reqs[i])
               /\ reqs[i].pc = "enqueue"
               /\ RowOf(WriteFamily(reqs[i]), WriteId(reqs[i])) # NoRow
               /\ RowOf(WriteFamily(reqs[i]), WriteId(reqs[i])).status = "queued"
               /\ ~InQueue(queues, WriteQueue(reqs[i]), WriteId(reqs[i]))
               /\ InQueue(queues', WriteQueue(reqs[i]), WriteId(reqs[i]))
       /\ (reqs[i].pc = "enqueue" /\ reqs'[i].pc = "done" /\ queues' = queues)
            => reqs'[i].http = 500
       /\ (reqs'[i].pc = "done" /\ reqs'[i].http = 500 /\ IsWrite(reqs'[i]))
            => RowAfter(WriteFamily(reqs'[i]), WriteId(reqs'[i])).status = "queued"]_vars

\* POST /resumes was answered 202 with its job on the queue, after a
\* POST /jobs with a text whose enqueue failed: its row is queued and no job
\* of its id is on the queue or with the Worker.
C20_Witness ==
  /\ reqs[WriteReq].pc = "done"
  /\ reqs[WriteReq].op = "POST /resumes"
  /\ reqs[WriteReq].http = 202
  /\ InQueue(queues, "parseResume", reqs[WriteReq].resumeId)
  /\ \E id \in JobIds :
       /\ jobs[id] # NoRow
       /\ jobs[id].source = "text"
       /\ jobs[id].status = "queued"
       /\ ~InQueue(queues, "parseJob", id)
  /\ worker["parseJob"].pc = "idle"

\* The input of a POST request is one the boundary must turn away.
InvalidInput(r) ==
  \/ r.op = "POST /resumes" /\ r.body.file # "ok"
  \/ /\ r.op = "POST /jobs"
     /\ \/ ~r.body.title
        \/ r.body.file \in {"bad_type", "too_large"}
        \/ r.body.file = "none" /\ ~r.body.text
  \/ r.op = "POST /matches" /\ (r.resumeId = NullId \/ r.jobId = NullId)

\* C21: a POST request answered 400, 413 or 415, and any POST request with an
\* invalid input, creates no resume, job or match-job row and enqueues nothing.
C21_RejectedReachesNoWorker ==
  [][\A i \in ReqIds :
       (/\ reqs'[i] # reqs[i]
        /\ reqs'[i].op \in {"POST /resumes", "POST /jobs", "POST /matches"}
        /\ \/ reqs'[i].pc = "done" /\ reqs'[i].http \in {400, 413, 415}
           \/ InvalidInput(reqs'[i]))
         => /\ reqs'[i].pc = "done"
            /\ reqs'[i].http \in {400, 413, 415, 500}
            /\ resumes' = resumes
            /\ jobs' = jobs
            /\ match_jobs' = match_jobs
            /\ queues' = queues]_vars

\* POST /jobs with a file of an unsupported type was answered 415 after
\* ensureUser had run, and no job row exists.
C21_Witness ==
  /\ reqs[WriteReq].op = "POST /jobs"
  /\ reqs[WriteReq].http = 415
  /\ users[UserId(1)] # NoRow
  /\ \A id \in JobIds : jobs[id] = NoRow
  /\ queues["parseJob"] = <<>>

\* C22: every POST /jobs that carries neither a file nor a text is answered
\* 400 file_or_text_required, whatever else it carries.
C22_NoFileNoTextIs400 ==
  [][\A i \in ReqIds :
       (/\ reqs'[i] # reqs[i]
        /\ reqs'[i].op = "POST /jobs"
        /\ reqs'[i].body.file = "none"
        /\ ~reqs'[i].body.text)
         => /\ reqs'[i].http = 400
            /\ reqs'[i].error = "file_or_text_required"]_vars

\* C23: the status events of one entity are emitted in the order of the
\* writes to its row. Of two runs that have both written and not yet emitted,
\* the one whose status the row holds wrote last; it must not emit first.
C23_EmitsInWriteOrder ==
  [][\A w \in ParseJobWorkers :
       (worker[w].pc = "emit" /\ worker'[w].pc # "emit")
         => \A v \in ParseJobWorkers \ {w} :
              (/\ worker[v].pc = "emit"
               /\ worker[v].job.id = worker[w].job.id
               /\ worker[v].emitStatus # worker[w].emitStatus)
                => jobs[worker[w].job.id].status # worker[w].emitStatus]_vars

\* C24: once a job is soft-deleted while its parse is in flight, no step of
\* the Worker changes its row or emits a status event for it.
C24_WriteAfterDeleteIsNoOp ==
  [][\A id \in JobIds :
       (/\ jobs[id] # NoRow
        /\ jobs[id].is_deleted
        /\ worker["parseJob"].pc \notin {"idle", "off", "returned", "thrown"}
        /\ worker["parseJob"].job.id = id)
         => /\ jobs'[id] = jobs[id]
            /\ lastEvent' = lastEvent]_vars

WorkersOn(q) == {w \in WorkerIds : QueueOf(w) = q /\ worker[w].pc # "off"}

C26_OneListenerOneWorker ==
  /\ \A fam \in Families : Len(listeners[fam]) <= 1
  /\ \A q \in QueueNames : Cardinality(WorkersOn(q)) <= 1

\* C27: every stored match summary has one requirement entry per detail of the
\* /match response, in the order of the details; the entry has
\* candidate_has_experience = (similarity >= 0.5) and its comments are
\* 'Matched via <S> (similarity <v>)' when matched with a named skill S,
\* 'Matched with similarity <v>' when matched without one, and
\* 'No close match found' when not matched.
C27_Entry(d, r) ==
  /\ r.skill = d.requirement
  /\ r.candidate_has_experience = (d.similarity >= 50)
  /\ r.comments =
       IF d.similarity >= 50
       THEN IF d.matched_skill = "python"
            THEN <<"Matched via ", "python", " (similarity ",
                   NumberToString(d.similarity), ")">>
            ELSE <<"Matched with similarity ", NumberToString(d.similarity)>>
       ELSE <<"No close match found">>

C27_SummaryShape ==
  \A id \in MatchIds : matches[id] # NoRow =>
    LET s == matches[id].summary
    IN  /\ Len(s.requirements) = Len(s.raw_details)
        /\ \A i \in 1..Len(s.raw_details) :
             C27_Entry(s.raw_details[i], s.requirements[i])

C27_Witness ==
  \E id \in MatchIds :
    /\ matches[id] # NoRow
    /\ Len(matches[id].summary.raw_details) = 2
    /\ matches[id].summary.raw_details[1].similarity = 50
    /\ matches[id].summary.raw_details[1].matched_skill = "python"
    /\ matches[id].summary.requirements[1].candidate_has_experience
    /\ matches[id].summary.raw_details[2].similarity = 49
    /\ matches[id].summary.requirements[2].comments = <<"No close match found">>

\* C28: a detail request, a DELETE and a match request that name an id owned
\* by another user are answered exactly as for an id that does not exist:
\* 404 with the error code of the operation and no row.
Hidden(tbl, id, c) == tbl[id] = NoRow \/ tbl[id].user_id # UserId(c)

C28_Target(r) ==
  CASE r.op \in {"GET /resumes/:id", "DELETE /resumes/:id"} -> <<resumes, r.resumeId>>
    [] r.op \in {"GET /jobs/:id", "DELETE /jobs/:id"} -> <<jobs, r.jobId>>
    [] r.op = "GET /matches/:id" -> <<match_jobs, r.matchJobId>>

C28_NotFound(op) ==
  [http |-> 404, rows |-> {},
   error |-> IF op \in {"DELETE /resumes/:id", "DELETE /jobs/:id"}
             THEN "no_route" ELSE "not_found"]

C29_IncrementAnnualUsage ==
  [][\A i \in ReqIds :
       /\ (reqs[i].pc = "usage_update" /\ reqs'[i].pc = "done") =>
            LET old == users[UserId(reqs[i].caller)]
                new == users'[UserId(reqs[i].caller)]
            IN  /\ new.annual_limit = old.annual_limit
                /\ IF old.annual_period_start = NullTime
                      \/ now - old.annual_period_start > 365
                   THEN new.annual_usage_count = 1
                        /\ new.annual_period_start = now
                   ELSE new.annual_usage_count = old.annual_usage_count + 1
                        /\ new.annual_period_start = old.annual_period_start
       /\ (Free(i) /\ reqs'[i] # reqs[i]
            /\ reqs'[i].op = "incrementAnnualUsage"
            /\ users[UserId(reqs'[i].caller)] = NoRow) =>
            (reqs'[i].error = "user_not_found" /\ users' = users)]_vars

\* A call made exactly 365 days after the window start has incremented the
\* count of 2 and kept the start.
C29_Witness ==
  /\ reqs[WriteReq].pc = "done"
  /\ reqs[WriteReq].op = "incrementAnnualUsage"
  /\ reqs[WriteReq].caller = 1
  /\ now = 365
  /\ users[UserId(1)].annual_period_start = 0
  /\ users[UserId(1)].annual_usage_count = 3

\* C30: with Workers that keep running and external calls that return or
\* fail, whenever a Worker has started on a queue job, the entity of the job
\* is later in a terminal status: ready or error for a resume or a job,
\* completed or failed for a match job.
Started(w, id) == worker[w].pc \notin {"off", "idle"} /\ worker[w].job.id = id

StatusIn(tbl, id, statuses) == tbl[id] # NoRow /\ tbl[id].status \in statuses

C30_StartedEndsTerminal ==
  /\ \A id \in ResumeIds :
       Started("parseResume", id) ~> StatusIn(resumes, id, {"ready", "error"})
  /\ \A id \in JobIds :
       Started("parseJob", id) ~> StatusIn(jobs, id, {"ready", "error"})
  /\ \A id \in MatchJobIds :
       Started("computeMatch", id)
         ~> StatusIn(match_jobs, id, {"completed", "failed"})

\* C31: an exception thrown out of bus.emit is swallowed by the operation that
\* wrote the status: updateJobStatus, softDeleteJob, createMatchJob,
\* updateMatchJobStatus and attachResult keep their write and return, and the
\* caller goes on to its next step instead of its error path.
C31_Job(st) == \E id \in JobIds : worker'["parseJob"].job.id = id
                                    /\ jobs'[id].status = st

C31_Match(st) == \E id \in MatchJobIds : worker'["computeMatch"].job.id = id
                                          /\ match_jobs'[id].status = st

C31_EmitFailureSwallowed ==
  [][(\A fam \in {"job", "match"} : FirstThrow(listeners[fam]) # 0) =>
       /\ (worker["parseJob"].pc = "idle" /\ worker'["parseJob"].pc # "idle")
            => (worker'["parseJob"].pc \in {"fetch", "nlp"} /\ C31_Job("processing")
                /\ lastEvent'.threw)
       /\ (worker["parseJob"].pc = "mark_ready" /\ worker'["parseJob"].pc # "mark_ready")
            => (worker'["parseJob"].pc = "returned" /\ C31_Job("ready")
                /\ lastEvent'.threw)
       /\ (worker["computeMatch"].pc = "idle" /\ worker'["computeMatch"].pc # "idle")
            => (worker'["computeMatch"].pc = "read" /\ C31_Match("running")
                /\ lastEvent'.threw)
       /\ (worker["computeMatch"].pc = "attach" /\ worker'["computeMatch"].pc = "returned")
            => (C31_Match("completed") /\ lastEvent'.threw
                /\ match_jobs'[worker["computeMatch"].job.id].result_id
                     = worker["computeMatch"].matchId)
       /\ (worker["computeMatch"].pc = "attach" /\ worker'["computeMatch"].pc = "catch")
            => match_jobs' = match_jobs
       /\ \A i \in ReqIds :
            (reqs[i].pc = "create" /\ reqs'[i].pc # "create")
              => (reqs'[i].pc = "enqueue" /\ lastEvent'.threw
                  /\ match_jobs'[reqs'[i].matchJobId] # NoRow
                  /\ match_jobs'[reqs'[i].matchJobId].status = "queued")
       /\ \A id \in JobIds :
            (jobs[id] # NoRow /\ jobs'[id] # NoRow
             /\ ~jobs[id].is_deleted /\ jobs'[id].is_deleted)
              => (lastEvent'.threw /\ lastEvent'.status = "deleted"
                  /\ UNCHANGED worker)]_vars

\* A match job was completed with its result attached although the emit of
\* attachResult threw before the bridge handler was called.
C31_Witness ==
  /\ lastEvent.threw
  /\ lastEvent.family = "match"
  /\ lastEvent.status = "completed"
  /\ lastEvent.invoked = 1
  /\ worker["computeMatch"].pc = "returned"
  /\ match_jobs[lastEvent.id].status = "completed"
  /\ match_jobs[lastEvent.id].result_id # NullId

\* C32: the status of every realtime push is the status the row has when the
\* bridge handler reads it, not the status of the event: a push never carries
\* a status the row does not hold at that read, and handlers that read after
\* a later write all push the later status.
C32_PushCarriesRowStatus ==
  [][\A k \in PendingKeys :
       pending'[k] < pending[k] =>
         \/ lastPush' = lastPush
         \/ /\ k[1] = "match"
            /\ match_jobs[k[2]] # NoRow
            /\ lastPush'.id = k[2]
            /\ lastPush'.event = "match:update"
            /\ lastPush'.status = match_jobs[k[2]].status]_vars

\* One handler pushed completed for a match job that was run once, and two
\* more handler calls of the one listener, made for its earlier events, have
\* still to read the row.
C32_Witness ==
  \E id \in MatchJobIds :
    /\ Len(listeners["match"]) = 1
    /\ pending[<<"match", id>>] = 2
    /\ match_jobs[id] # NoRow
    /\ match_jobs[id].status = "completed"
    /\ worker["computeMatch"].job.n = 1
    /\ worker["computeMatch"].job.id = id
    /\ lastPush.id = id
    /\ lastPush.event = "match:update"
    /\ lastPush.status = "completed"

\* C33: a bridge handler whose row does not exist, whose owner has a null
\* external subject, or whose read fails pushes nothing and changes nothing
\* else; and the status write whose event called it still completes, the
\* Worker going on to the step after the write.
C33_DropIsSilent ==
  [][/\ \A k \in PendingKeys :
          pending'[k] < pending[k] =>
            /\ UNCHANGED <<dbVars, queues, worker, reqs, lastEvent>>
            /\ (BridgeRow(k[1], k[2]) = NoRow
                \/ BridgeRow(k[1], k[2]).auth0_sub = NoSub) => lastPush' = lastPush
            /\ lastPush' # lastPush => lastPush'.room = <<"user", Auth0Sub(1)>>
     /\ (worker["parseJob"].pc = "idle" /\ worker'["parseJob"].pc # "idle")
          => (worker'["parseJob"].pc \in {"fetch", "nlp"}
              /\ pending'[<<"job", worker'["parseJob"].job.id>>]
                   = pending[<<"job", worker'["parseJob"].job.id>>] + 1)
     /\ (worker["parseJob"].pc = "mark_ready" /\ worker'["parseJob"].pc # "mark_ready")
          => worker'["parseJob"].pc = "returned"]_vars

\* The job whose owner has no users row was parsed to ready, both of its
\* events were handled, and nothing was pushed.
C33_Witness ==
  /\ jobs[1] # NoRow
  /\ jobs[1].user_id = UserId(2)
  /\ jobs[1].status = "ready"
  /\ worker["parseJob"].pc = "returned"
  /\ lastEvent.status = "ready"
  /\ lastEvent.invoked = 1
  /\ pending[<<"job", 1>>] = 0
  /\ lastPush = NoPush

\* C34: createPoolWithRetry makes at most SQL_RETRY_ATTEMPTS connection
\* attempts; it returns the pool at the first attempt that succeeds, makes no
\* further attempt after an error that is not transient, waits
\* SQL_RETRY_BACKOFF_MS * attempt between two consecutive attempts, and
\* otherwise throws the error of its last attempt.
C34_Transient(code) == code \in {"ETIMEOUT", "ESOCKET", "ELOGIN", "ECONNRESET"}

C34_BoundedRetry ==
  [][/\ pool'.tries <= pool.RETRY_ATTEMPTS
     /\ pool.pc \in {"returned", "thrown"} => pool' = pool
     /\ pool'.tries = pool.tries + 1 =>
          /\ pool.tries >= 1 => pool.delay = 3000 * pool.tries
          /\ \/ pool'.pc = "returned" /\ pool'.result = "pool"
             \/ pool'.pc = "throw" /\ (~C34_Transient(pool'.lastErr)
                                        \/ pool'.tries = pool.RETRY_ATTEMPTS)
             \/ pool'.pc = "wait" /\ C34_Transient(pool'.lastErr)
                /\ pool'.tries < pool.RETRY_ATTEMPTS
     /\ pool'.pc = "thrown" => pool'.result = pool'.lastErr]_vars

\* All three attempts failed with transient errors, 3000 and 6000 ms were
\* waited, and the error of the third attempt was thrown.
C34_Witness ==
  /\ pool.pc = "thrown"
  /\ pool.RETRY_ATTEMPTS = 3
  /\ pool.tries = 3
  /\ pool.delay = 6000
  /\ pool.result = "ECONNRESET"

\* C35: when a run of processParseJob ends with the job ready, the
\* job_soft_skills rows of the job are the soft skills of the NLP response of
\* that run.
C35_SoftSkillsReplaced ==
  [][\A w \in {"parseJob"} :
       (worker[w].pc = "mark_ready" /\ worker'[w].pc = "returned")
         => job_soft_skills'[worker[w].job.id] = SetToBag(worker[w].soft)]_vars

\* C36: requestMatch consumes the quota before it looks at the resume and the
\* job: the count of a caller without the Pro header goes up by one (or to 1
\* with a new window) before the reads, and a refusal with 404 or 409 that
\* follows creates no match job and leaves the counters as incremented.
C36_Count(tbl) == tbl[UserId(1)].annual_usage_count

C36_QuotaConsumedBeforeValidation ==
  [][/\ (reqs[MatchReq].pc = "inc_write" /\ reqs'[MatchReq].pc # "inc_write")
          => /\ reqs'[MatchReq].pc = "get_resume"
             /\ \/ C36_Count(users') = C36_Count(users) + 1
                \/ /\ C36_Count(users') = 1
                   /\ users'[UserId(1)].annual_period_start = now
     /\ (reqs[MatchReq].pc \in {"get_resume", "get_job"}
         /\ reqs'[MatchReq].pc = "done")
          => /\ reqs'[MatchReq].http \in {404, 409}
             /\ users' = users
             /\ match_jobs' = match_jobs
     /\ (reqs[MatchReq].pc = "new" /\ ~reqs'[MatchReq].isPro
         /\ reqs'[MatchReq].pc \notin {"new", "done"})
          => reqs'[MatchReq].pc = "inc_read"
     /\ C36_Count(users') < C36_Count(users)
          => (reqs[MatchReq].pc = "inc_write" /\ C36_Count(users') = 1)]_vars

\* A request without the Pro header was refused 409 for a resume that is not
\* parsed yet; the caller's first window was opened and counts 1, and there
\* is no match job.
C36_Witness ==
  /\ reqs[MatchReq].pc = "done"
  /\ ~reqs[MatchReq].isPro
  /\ reqs[MatchReq].http = 409
  /\ reqs[MatchReq].error = "resume_not_ready"
  /\ users[UserId(1)].annual_usage_count = 1
  /\ users[UserId(1)].annual_period_start = 0
  /\ \A id \in MatchJobIds : match_jobs[id] = NoRow

\* C37: when putObject fails in POST /resumes or POST /jobs (file), the answer
\* is 500 storage_write_failed, no parse job is enqueued, and the row inserted
\* before stays queued from then on: no queue job, Worker or request names it,
\* and a queued row that nothing names stays so at every step.
C37_Named(q, id) ==
  \/ \E k \in 1..Len(queues[q]) : queues[q][k].id = id
  \/ \E w \in WorkerIds : QueueOf(w) = q /\ worker[w].job.id = id
  \/ \E i \in ReqIds :
       /\ reqs[i].pc \in {"put", "enqueue"}
       /\ IF q = "parseResume" THEN reqs[i].op = "POST /resumes" /\ reqs[i].resumeId = id
                               ELSE reqs[i].op = "POST /jobs" /\ reqs[i].jobId = id

C37_Stranded(tbl, q, id) ==
  /\ tbl[id] # NoRow
  /\ tbl[id].status = "queued"
  /\ ~C37_Named(q, id)

C37_StorageFailureStrandsRow ==
  [][/\ \A i \in ReqIds :
          (reqs[i].pc = "put" /\ reqs'[i].pc = "done")
            => /\ reqs'[i].http = 500
               /\ reqs'[i].error = "storage_write_failed"
               /\ queues' = queues
               /\ IF reqs[i].op = "POST /resumes"
                    THEN C37_Stranded(resumes, "parseResume", reqs[i].resumeId)'
                    ELSE C37_Stranded(jobs, "parseJob", reqs[i].jobId)'
     /\ \A id \in ResumeIds :
          C37_Stranded(resumes, "parseResume", id)
            => C37_Stranded(resumes, "parseResume", id)'
     /\ \A id \in JobIds :
          C37_Stranded(jobs, "parseJob", id)
            => C37_Stranded(jobs, "parseJob", id)']_vars

\* Both uploads failed at putObject: the last answer was 500
\* storage_write_failed for the job, and the resume and the job are queued
\* rows that no queue job, Worker or request names, while the connection has
\* gone on to other work.
C37_Witness ==
  /\ reqs[WriteReq].pc = "done"
  /\ reqs[WriteReq].op = "POST /jobs"
  /\ reqs[WriteReq].error = "storage_write_failed"
  /\ \E id \in ResumeIds : C37_Stranded(resumes, "parseResume", id)
  /\ \E id \in JobIds : /\ C37_Stranded(jobs, "parseJob", id)
                         /\ jobs[id].source = "file"
                         /\ reqs[WriteReq].jobId = id

\* C38: every completed match job references through result_id an existing
\* matches row with the user, resume and job of the match job, and the step
\* that sets result_id finds that row already inserted.
C38_Linked(mj, res) ==
  \A id \in MatchJobIds :
    (mj[id] # NoRow /\ mj[id].status = "completed")
      => /\ mj[id].result_id \in MatchIds
         /\ res[mj[id].result_id] # NoRow
         /\ res[mj[id].result_id].user_id = mj[id].user_id
         /\ res[mj[id].result_id].resume_id = mj[id].resume_id
         /\ res[mj[id].result_id].job_id = mj[id].job_id

C38_CompletedHasItsResult ==
  [][/\ C38_Linked(match_jobs, matches)
     /\ C38_Linked(match_jobs', matches')
     /\ \A id \in MatchJobIds :
          (match_jobs[id] # NoRow
           /\ match_jobs'[id].result_id # match_jobs[id].result_id)
            => /\ match_jobs'[id].status = "completed"
               /\ match_jobs'[id].result_id \in MatchIds
               /\ matches[match_jobs'[id].result_id] # NoRow
               /\ matches' = matches]_vars

\* A match job was computed a second time after a redelivery: it is completed
\* and references the second of two matches rows of its pair.
C38_Witness ==
  \E id \in MatchJobIds, m1, m2 \in MatchIds :
    /\ m1 # m2
    /\ match_jobs[id] # NoRow
    /\ match_jobs[id].status = "completed"
    /\ match_jobs[id].result_id = m2
    /\ matches[m1] # NoRow
    /\ matches[m2] # NoRow
    /\ worker["computeMatch"].pc = "idle"

\* C39: a job or resume its owner has deleted is never accepted as input to
\* match creation: once the owner's DELETE for it has been answered, the
\* owner's POST /matches naming it is answered 404 job_not_found
\* (resume_not_found) at the read of that row, and creates no match job.
C39_Deleted(op, c) ==
  /\ reqs[WriteReq].pc = "done"
  /\ reqs[WriteReq].op = op
  /\ reqs[WriteReq].caller = c

C40_SummaryMatchesStatus(tbl) ==
  \A id \in DOMAIN tbl :
    tbl[id] # NoRow
      => /\ (tbl[id].parsed_summary # Null) <=> (tbl[id].status \in {"ready", "error"})
         /\ tbl[id].status = "error" => tbl[id].parsed_summary = "message"
         /\ tbl[id].status = "ready" => tbl[id].parsed_summary = "summary"

C40_SummaryIffReadyOrError ==
  /\ C40_SummaryMatchesStatus(resumes)
  /\ C40_SummaryMatchesStatus(jobs)

\* The second delivery of a parse job has taken a resume whose first run
\* wrote its skills and marked it ready back to processing, its summary
\* cleared, while a job is in error with its message.
C40_Witness ==
  /\ worker["parseResume"].job.n = 2
  /\ worker["parseResume"].pc = "fetch"
  /\ candidate_skills[worker["parseResume"].job.id] # NoRows
  /\ resumes[worker["parseResume"].job.id].status = "processing"
  /\ resumes[worker["parseResume"].job.id].parsed_summary = Null
  /\ \E id \in JobIds : jobs[id] # NoRow /\ jobs[id].status = "error"
                         /\ jobs[id].parsed_summary # Null

====
